---- MODULE Spec2Model ----
(***************************************************************************)
(* Marker coverage estimator: the detection pipeline MarkerDetector::detect *)
(* and the geometry / grid helpers it calls.                                *)
(*                                                                          *)
(* The repository holds three definitions of MarkerDetector::detect:        *)
(*   "md"  src/src/marker_detector.cpp:82-297   (refinement by back-        *)
(*         projection, grid_ok = cells.ok, no coverage guard)               *)
(*   "fb"  src/unnamed/part_001:79-271          (warped-view relaxation,    *)
(*         colorful fallback, final polygon = quad, 0.5% coverage guard)    *)
(*   "v0"  src/unnamed/part_001:335-426         (grid_ok = seams && cells,  *)
(*         polygon = quad, no coverage guard)                               *)
(* The variable build says which one is linked into the program.           *)
(*                                                                          *)
(* The image-processing layer (cvtColor, blur, CLAHE, morphology,           *)
(* findContours, approxPolyDP, warpPerspective, ...) is not part of the     *)
(* repository.  An image is a display list of rectangles of pixel classes, *)
(* each class standing for the HSV value the layer yields for the pixel;   *)
(* the layouts used keep every feature at least 3 pixels thick and every   *)
(* gap at least 5 pixels wide, so that the 3x3 open (<= 1 iteration) and   *)
(* close (<= 2 iterations) passes leave the thresholded mask unchanged.     *)
(* Real-valued quantities are exact rationals (numerator / denominator).   *)
(*                                                                          *)
(* ColorSegmenter::allowedMaskHSV(bgr, opt) has two definitions as well:    *)
(*   "v1"  src/unnamed/part_000:24-77    (S floor clamped to 20..200)       *)
(*   "v2"  src/unnamed/part_000:207-257  (white-rim step, relaxation)       *)
(* and the variable seg says which one is linked.                           *)
(*                                                                          *)
(* Specifications:                                                          *)
(*   Spec       one call of detect, one action per stage                    *)
(*   SpecTwice  a second call after the first, same arguments               *)
(*   SpecConc   two calls in flight, their stages interleaved               *)
(*   SpecBoard  detect on the 300 x 300 board with default options          *)
(*   SpecGeom   direct calls of geom::polygonCoveragePercent                *)
(*   SpecSeg    direct calls of allowedMaskHSV, one action per mask step    *)
(*   SpecCells  direct calls of grid::checkGridCells                        *)
(*   SpecCalls  direct calls of grid::checkGridSeams, geom::findStrongQuad, *)
(*              sortClockwiseTL and findTightRange                          *)
(***************************************************************************)
EXTENDS Integers, Sequences, FiniteSets, TLC

\* ------------------------------------------------------------------------
\* Bounds of the model
\* ------------------------------------------------------------------------
ImgSide == 30
MaxWarpSize == 33
MaxCoord == 3

\* ------------------------------------------------------------------------
\* Small helpers
\* ------------------------------------------------------------------------
Max(a, b) == IF a >= b THEN a ELSE b
Min(a, b) == IF a <= b THEN a ELSE b
Abs(a) == IF a >= 0 THEN a ELSE -a

Pt(x, y) == [x |-> x, y |-> y]
Rect(x0, y0, x1, y1) == [x0 |-> x0, y0 |-> y0, x1 |-> x1, y1 |-> y1]
InRect(r, x, y) == r.x0 <= x /\ x <= r.x1 /\ r.y0 <= y /\ y <= r.y1

NoValue == [none |-> TRUE]

\* ------------------------------------------------------------------------
\* Images and masks
\* ------------------------------------------------------------------------
\* Pixel classes and the H / S / V value each stands for (8-bit HSV as the
\* thresholds see it, i.e. after the optional blur and CLAHE on V).
ClassH(c) ==
    CASE c = "rose" -> 5 [] c = "olive" -> 25 [] c = "teal" -> 85 [] c = "deep" -> 120
      [] c = "black" -> 0 [] OTHER -> 60

ClassS(c) ==
    CASE c = "vivid" -> 255 [] c = "pale" -> 70 [] c = "gray" -> 20
      [] c = "rose" -> 75 [] c = "olive" -> 255 [] c = "teal" -> 255
      [] c = "deep" -> 210 [] c = "glare" -> 60 [] c = "shine" -> 100
      [] OTHER -> 0

ClassV(c) ==
    CASE c = "vivid" -> 200 [] c = "pale" -> 200 [] c = "gray" -> 200
      [] c = "rose" -> 200 [] c = "olive" -> 60 [] c = "teal" -> 55
      [] c = "deep" -> 200 [] c = "glare" -> 220 [] c = "shine" -> 230
      [] OTHER -> 0

\* The class of pixel (x, y): the last rectangle of the display list that
\* contains it, black when none does.
RECURSIVE PaintAt(_, _, _, _)
PaintAt(paint, i, x, y) ==
    IF i = 0 THEN "black"
    ELSE IF InRect(paint[i].r, x, y) THEN paint[i].cls
    ELSE PaintAt(paint, i - 1, x, y)

PixelClass(img, x, y) == PaintAt(img.paint, Len(img.paint), x, y)

\* An image: its size and type, what it shows, what its warped view shows
\* (warp) and the region build_white_rim finds in it (rim, a list of
\* rectangles).
Image(cols, rows, type, paint, warp) ==
    [cols |-> cols, rows |-> rows, type |-> type, paint |-> paint, warp |-> warp,
     rim |-> << >>]

IsEmpty(m) == m.cols = 0 \/ m.rows = 0

\* The base HSV ranges of buildAllowedMaskHSV (smax = vmax = 255).
GreenSmin == 60
GreenVmin == 50

Templates ==
    << [name |-> "red1", hmin |-> 0, hmax |-> 10, smin |-> 80, vmin |-> 50],
       [name |-> "red2", hmin |-> 170, hmax |-> 180, smin |-> 80, vmin |-> 50],
       [name |-> "green", hmin |-> 40, hmax |-> 85, smin |-> GreenSmin, vmin |-> GreenVmin],
       [name |-> "yellow", hmin |-> 20, hmax |-> 35, smin |-> 80, vmin |-> 70],
       [name |-> "blue", hmin |-> 90, hmax |-> 130, smin |-> 60, vmin |-> 50],
       [name |-> "magenta", hmin |-> 135, hmax |-> 165, smin |-> 60, vmin |-> 50],
       [name |-> "cyan", hmin |-> 85, hmax |-> 100, smin |-> 60, vmin |-> 60] >>

clampi(v, lo, hi) == Max(lo, Min(hi, v))

\* applySV: a template under the global floors.  part_000:106-110 clamps
\* both floors to 0..255; part_000:51-55 clamps the S floor to 20..200.
applySV(r, smin, vmin) ==
    [r EXCEPT !.smin = clampi(Max(r.smin, smin), 0, 255),
              !.vmin = clampi(Max(r.vmin, vmin), 0, 255)]

applySV_v1(r, smin, vmin) ==
    [r EXCEPT !.smin = clampi(Max(r.smin, smin), 20, 200),
              !.vmin = clampi(Max(r.vmin, vmin), 0, 255)]

\* inRangeH: cv::inRange of one pixel against one range.  The variant below
\* passes zero lower bounds for S and V.
inRangeH_noFloor(c, r) == r.hmin <= ClassH(c) /\ ClassH(c) <= r.hmax

inRangeH(c, r) ==
    /\ r.hmin <= ClassH(c) /\ ClassH(c) <= r.hmax
    /\ r.smin <= ClassS(c) /\ ClassS(c) <= 255
    /\ r.vmin <= ClassV(c) /\ ClassV(c) <= 255

\* "Suppress white/highlights (low S, high V)".
whiteHighlight(c) == ClassS(c) <= 60 /\ ClassV(c) >= 210

\* buildAllowedMaskHSV for one pixel: the union of the seven ranges under the
\* global floors, minus the highlights.
Allowed(c, smin, vmin) ==
    /\ \E i \in 1..Len(Templates) : inRangeH(c, applySV(Templates[i], smin, vmin))
    /\ ~whiteHighlight(c)

Allowed_v1(c, smin, vmin) ==
    /\ \E i \in 1..Len(Templates) : inRangeH(c, applySV_v1(Templates[i], smin, vmin))
    /\ ~whiteHighlight(c)

\* A mask is the thresholded image: the image's display list, the global
\* floors that were applied (and by which definition, ver), and the rim that
\* was subtracted.  Lit is the 255 / 0 value of one mask pixel.
AllowedBy(mask, c) ==
    IF mask.ver = "v1" THEN Allowed_v1(c, mask.smin, mask.vmin)
    ELSE Allowed(c, mask.smin, mask.vmin)

PaintClasses(paint) == { paint[i].cls : i \in 1..Len(paint) } \cup {"black"}

LitClasses(mask) == { c \in PaintClasses(mask.paint) : AllowedBy(mask, c) }

InAny(rects, x, y) == \E i \in 1..Len(rects) : InRect(rects[i], x, y)

Lit(mask, x, y) ==
    /\ 0 <= x /\ x < mask.cols /\ 0 <= y /\ y < mask.rows
    /\ PaintAt(mask.paint, Len(mask.paint), x, y) \in LitClasses(mask)
    /\ ~InAny(mask.rim, x, y)

countNonZero(mask, r) ==
    LET on == LitClasses(mask)
    IN  Cardinality({ p \in (Max(0, r.x0) .. Min(mask.cols - 1, r.x1))
                              \X (Max(0, r.y0) .. Min(mask.rows - 1, r.y1)) :
                        /\ PaintAt(mask.paint, Len(mask.paint), p[1], p[2]) \in on
                        /\ ~InAny(mask.rim, p[1], p[2]) })

WholeOf(m) == Rect(0, 0, m.cols - 1, m.rows - 1)

buildAllowedMaskHSV(hsv, smin, vmin) ==
    [cols |-> hsv.cols, rows |-> hsv.rows, type |-> "CV_8UC1", paint |-> hsv.paint,
     smin |-> smin, vmin |-> vmin, ver |-> "v2", rim |-> << >>]

\* build_white_rim: the rim the booster finds (white candidates on bright
\* edges, dilated), given with the image.
build_white_rim(hsv) == hsv.rim

\* "Stage 0.5": the rim is subtracted unless that leaves fewer than 65% of
\* the lit pixels (nz1 >= 0.65 * nz0, nz0 = max(1, countNonZero)).  The
\* variant below has the brake at 35%.
rimBrakeKeeps_loose(nz0, nz1) == 100 * nz1 >= 35 * Max(1, nz0)

rimBrakeKeeps(nz0, nz1) == 100 * nz1 >= 65 * Max(1, nz0)

whiteRimStep(hsv, mask) ==
    LET mask_after == [mask EXCEPT !.rim = build_white_rim(hsv)]
    IN  IF rimBrakeKeeps(countNonZero(mask, WholeOf(mask)),
                         countNonZero(mask_after, WholeOf(mask)))
        THEN mask_after ELSE mask

\* gentleRelaxIfSparse: at most RelaxAttempts times, while the mask covers
\* less than 0.1% of the image, lower both floors by RelaxStep and rebuild.
RelaxAttempts == 2
RelaxStep == 10

isSparse(mask) ==
    1000 * countNonZero(mask, WholeOf(mask)) < Max(1, mask.cols * mask.rows)

\* The variant below lowers the floors by twice the step.
relaxOnce_double(hsv, mask) ==
    buildAllowedMaskHSV(hsv, clampi(mask.smin - 2 * RelaxStep, 0, 255),
                             clampi(mask.vmin - 2 * RelaxStep, 0, 255))

relaxOnce(hsv, mask) ==
    buildAllowedMaskHSV(hsv, clampi(mask.smin - RelaxStep, 0, 255),
                             clampi(mask.vmin - RelaxStep, 0, 255))

RECURSIVE gentleRelaxIfSparse(_, _, _)
gentleRelaxIfSparse(hsv, mask, attempt) ==
    IF attempt >= RelaxAttempts \/ ~isSparse(mask) THEN mask
    ELSE gentleRelaxIfSparse(hsv, relaxOnce(hsv, mask), attempt + 1)

\* ColorSegmenter::allowedMaskHSV(bgr, opt): CV_Assert on the input, then the
\* base mask, the white-rim step and the relaxation (part_000:207-257), or
\* the base mask alone (part_000:24-77).  The closing morphology leaves the
\* masks of the model unchanged.
allowedMaskHSV_pre(bgr) == ~IsEmpty(bgr) /\ bgr.type = "CV_8UC3"

allowedMaskHSV(bgr, so) ==
    gentleRelaxIfSparse(bgr, whiteRimStep(bgr, buildAllowedMaskHSV(bgr, so.smin, so.vmin)), 0)

allowedMaskHSV_v1(bgr, so) ==
    [cols |-> bgr.cols, rows |-> bgr.rows, type |-> "CV_8UC1", paint |-> bgr.paint,
     smin |-> so.smin, vmin |-> so.vmin, ver |-> "v1", rim |-> << >>]

Segmenters == {"v1", "v2"}

segmentWith(ver, bgr, so) ==
    IF ver = "v1" THEN allowedMaskHSV_v1(bgr, so) ELSE allowedMaskHSV(bgr, so)

\* ------------------------------------------------------------------------
\* Geometry
\* ------------------------------------------------------------------------
\* A polygon is a sequence of points whose coordinates are pts[i].x / den,
\* pts[i].y / den (den = 1 for integer points).
Poly(pts, den) == [pts |-> pts, den |-> den]

\* cv::contourArea(poly) with oriented = false: |a00| / 2 where a00 is the
\* sum of prev.x * p.y - prev.y * p.x over the closed polygon.  Shoelace is
\* a00 (twice the oriented area, in units of 1 / den^2).
RECURSIVE ShoelaceFrom(_, _)
ShoelaceFrom(pts, i) ==
    IF i > Len(pts) THEN 0
    ELSE LET prev == pts[IF i = 1 THEN Len(pts) ELSE i - 1]
             p == pts[i]
         IN  prev.x * p.y - prev.y * p.x + ShoelaceFrom(pts, i + 1)

Shoelace(pts) == IF Len(pts) = 0 THEN 0 ELSE ShoelaceFrom(pts, 1)

contourArea2(pts) == Abs(Shoelace(pts))

\* A rational number num / den with den > 0.
Rat(num, den) == [num |-> num, den |-> den]
RatLess(a, b) == a.num * b.den < b.num * a.den
RatEq(a, b) == a.num * b.den = b.num * a.den

\* geom::polygonCoveragePercent(poly, sz); the variant below takes the
\* oriented area (cv::contourArea(poly, true)) instead.
polygonCoveragePercent_oriented(poly, sz) ==
    IF Len(poly.pts) < 3 THEN Rat(0, 1)
    ELSE LET total == sz.width * sz.height
         IN  IF total <= 0 THEN Rat(0, 1)
             ELSE Rat(100 * Shoelace(poly.pts), 2 * poly.den * poly.den * total)

polygonCoveragePercent(poly, sz) ==
    IF Len(poly.pts) < 3 THEN Rat(0, 1)
    ELSE LET total == sz.width * sz.height
         IN  IF total <= 0 THEN Rat(0, 1)
             ELSE Rat(100 * contourArea2(poly.pts), 2 * poly.den * poly.den * total)

\* std::atan2(v.y, v.x) < std::atan2(u.y, u.x) decided exactly: the angle
\* lies in (-pi, pi]; Half orders the four ranges (-pi,0), {0}, (0,pi), {pi}.
Half(v) ==
    IF v.y < 0 THEN 0
    ELSE IF v.y > 0 THEN 2
    ELSE IF v.x >= 0 THEN 1 ELSE 3

AngleLess(u, v) ==
    \/ Half(u) < Half(v)
    \/ Half(u) = Half(v) /\ Half(u) \in {0, 2} /\ u.x * v.y - u.y * v.x > 0

\* sortClockwiseTL(ptsIn): sort by angle around the centroid, then rotate so
\* that the point of least x + y comes first.  Coordinates are scaled by 4
\* so that the centroid is integral; equal angles keep their input order.
\* sortClockwiseTL_noRotate stops after the sort by angle.
sortClockwiseTL_noRotate(ptsIn) ==
    LET sx == ptsIn[1].x + ptsIn[2].x + ptsIn[3].x + ptsIn[4].x
        sy == ptsIn[1].y + ptsIn[2].y + ptsIn[3].y + ptsIn[4].y
        rel(i) == Pt(4 * ptsIn[i].x - sx, 4 * ptsIn[i].y - sy)
        before(i, j) == AngleLess(rel(i), rel(j)) \/ (~AngleLess(rel(j), rel(i)) /\ i < j)
        rank(i) == 1 + Cardinality({j \in 1..4 : j # i /\ before(j, i)})
    IN  [k \in 1..4 |-> ptsIn[CHOOSE i \in 1..4 : rank(i) = k]]

sortClockwiseTL(ptsIn) ==
    LET sx == ptsIn[1].x + ptsIn[2].x + ptsIn[3].x + ptsIn[4].x
        sy == ptsIn[1].y + ptsIn[2].y + ptsIn[3].y + ptsIn[4].y
        rel(i) == Pt(4 * ptsIn[i].x - sx, 4 * ptsIn[i].y - sy)
        before(i, j) == AngleLess(rel(i), rel(j)) \/ (~AngleLess(rel(j), rel(i)) /\ i < j)
        rank(i) == 1 + Cardinality({j \in 1..4 : j # i /\ before(j, i)})
        withAngle == [k \in 1..4 |-> ptsIn[CHOOSE i \in 1..4 : rank(i) = k]]
        score(k) == withAngle[k].x + withAngle[k].y
        start == CHOOSE k \in 1..4 :
                    /\ \A j \in 1..4 : score(k) <= score(j)
                    /\ \A j \in 1..(k - 1) : score(j) > score(k)
    IN  [i \in 1..4 |-> withAngle[((start - 1 + i - 1) % 4) + 1]]

\* cv::findContours(work, RETR_EXTERNAL, CHAIN_APPROX_SIMPLE) after the 3x3
\* close of findStrongQuad: one contour per allowed rectangle of the mask's
\* display list (the layouts keep them solid, disjoint and apart), each the
\* four corner pixels of its rectangle.  A later rectangle that is not
\* allowed and covers the top right corner of an allowed one leaves an
\* L-shaped region, whose contour steps around the notch.
RectContour(r) == << Pt(r.x0, r.y0), Pt(r.x0, r.y1), Pt(r.x1, r.y1), Pt(r.x1, r.y0) >>

findContours(mask) ==
    LET n == Len(mask.paint)
        on == SelectSeq([i \in 1..n |-> i], LAMBDA i : AllowedBy(mask, mask.paint[i].cls))
        notches(i) == {j \in (i + 1)..n :
                          LET r == mask.paint[i].r
                              q == mask.paint[j].r
                          IN  /\ ~AllowedBy(mask, mask.paint[j].cls)
                              /\ q.x1 >= r.x1 /\ q.y0 <= r.y0
                              /\ r.x0 < q.x0 /\ q.x0 <= r.x1
                              /\ r.y0 <= q.y1 /\ q.y1 < r.y1}
        contour(i) ==
            LET r == mask.paint[i].r
            IN  IF notches(i) = {} THEN RectContour(r)
                ELSE LET q == mask.paint[CHOOSE j \in notches(i) : TRUE].r
                     IN  << Pt(r.x0, r.y0), Pt(r.x0, r.y1), Pt(r.x1, r.y1),
                            Pt(r.x1, q.y1 + 1), Pt(q.x0, q.y1 + 1),
                            Pt(q.x0 - 1, q.y1), Pt(q.x0 - 1, r.y0) >>
    IN  [k \in 1..Len(on) |-> contour(on[k])]

\* "Select largest contour by area": the loop keeps the first contour whose
\* area exceeds every area before it; best stays empty when no area is > 0
\* (LargestFrom_geq keeps a contour of area 0 as well).
LargestFrom_geq(contours, i, bestA, best) ==
    IF Len(contours) = 0 THEN best
    ELSE contours[CHOOSE k \in 1..Len(contours) :
                      /\ \A j \in 1..Len(contours) : contourArea2(contours[j]) <= contourArea2(contours[k])
                      /\ \A j \in 1..(k - 1) : contourArea2(contours[j]) < contourArea2(contours[k])]

RECURSIVE LargestFrom(_, _, _, _)
LargestFrom(contours, i, bestA, best) ==
    IF i > Len(contours) THEN best
    ELSE LET a == contourArea2(contours[i])
         IN  IF a > bestA THEN LargestFrom(contours, i + 1, a, contours[i])
             ELSE LargestFrom(contours, i + 1, bestA, best)

\* geom::findStrongQuad(allowedMask): NoValue for std::nullopt.
\* cv::approxPolyDP(best, 0.02 * arcLength) keeps the four corners of a
\* solid rectangle and more than four vertices of an L-shaped region (the
\* regions of the model are wide against that tolerance); cv::minAreaRect
\* of an L-shaped region with a square notch is its upright bounding box.
\* findStrongQuad_noFallback returns the approximation whatever its size.
findStrongQuad_pre(allowedMask) == ~IsEmpty(allowedMask) /\ allowedMask.type = "CV_8UC1"

findStrongQuad_noFallback(allowedMask) ==
    LET contours == findContours(allowedMask)
        best == LargestFrom(contours, 1, 0, << >>)
    IN  IF Len(contours) = 0 THEN NoValue
        ELSE IF Len(best) = 0 THEN NoValue
        ELSE IF Len(best) = 4 THEN Poly(sortClockwiseTL(best), 1)
        ELSE Poly(best, 1)

findStrongQuad(allowedMask) ==
    LET turn(p, i) ==
            LET a == p[i]
                b == p[(i % Len(p)) + 1]
                c == p[((i + 1) % Len(p)) + 1]
            IN  (b.x - a.x) * (c.y - b.y) - (b.y - a.y) * (c.x - b.x)
        isContourConvex(p) == \/ \A i \in 1..Len(p) : turn(p, i) >= 0
                              \/ \A i \in 1..Len(p) : turn(p, i) <= 0
        lo(S) == CHOOSE v \in S : \A w \in S : v <= w
        hi(S) == CHOOSE v \in S : \A w \in S : w <= v
        minAreaRect(p) ==
            RectContour(Rect(lo({p[i].x : i \in 1..Len(p)}), lo({p[i].y : i \in 1..Len(p)}),
                             hi({p[i].x : i \in 1..Len(p)}), hi({p[i].y : i \in 1..Len(p)})))
        quadFrom(best) ==
            LET approx == best
            IN  IF Len(best) = 0 THEN NoValue
                ELSE IF Len(approx) = 4 /\ isContourConvex(approx)
                     THEN Poly(sortClockwiseTL(approx), 1)
                     ELSE Poly(sortClockwiseTL(minAreaRect(best)), 1)
        fromContours(contours) ==
            IF Len(contours) = 0 THEN NoValue
            ELSE quadFrom(LargestFrom(contours, 1, 0, << >>))
    IN  fromContours(findContours(allowedMask))

\* What the warped N x N view of an image shows, by layout name.
Layout(name, n) ==
    LET all == Rect(0, 0, n - 1, n - 1)
        mid == Rect(n \div 2 - 2, n \div 2 - 2, n \div 2 + 2, n \div 2 + 2)
        centre == Rect(n \div 3 - 1, n \div 3 - 1, (2 * n) \div 3 + 1, (2 * n) \div 3 + 1)
        inner == Rect(4, 4, n - 5, n - 5)
        top == Rect(0, 0, n - 1, (2 * n) \div 5)
        E(r, c) == [r |-> r, cls |-> c]
    IN  CASE name = "full" -> << E(all, "vivid") >>
          [] name = "hole" -> << E(all, "vivid"), E(centre, "pale") >>
          [] name = "sparse" -> << E(all, "pale"), E(mid, "vivid") >>
          [] name = "faint" -> << E(all, "gray"), E(mid, "vivid") >>
          [] name = "halo" -> << E(inner, "vivid") >>
          [] name = "band" -> << E(all, "vivid"), E(top, "gray") >>
          [] name = "dim" -> << E(all, "pale") >>
          [] OTHER -> << >>

\* geom::warpToSquareWithH(bgr, quad, N) and geom::warpToSquare: the N x N
\* view, and the corners the homography H maps to the square's corners
\* (H and Hinv are determined by src and N).
warpToSquareWithH_pre(bgr, quad, n) ==
    /\ ~IsEmpty(bgr) /\ bgr.type = "CV_8UC3"
    /\ quad # NoValue /\ Len(quad.pts) = 4 /\ n > 0

warpToSquareWithH(bgr, quad, n) ==
    [image |-> Image(n, n, "CV_8UC3", Layout(bgr.warp, n), "none"),
     src |-> sortClockwiseTL(quad.pts), N |-> n]

\* cv::perspectiveTransform(pts, ptsBack, Hinv) for one point (u, v) of the
\* square: the quads of the model are parallelograms, for which Hinv is the
\* affine map below; the result has denominator N - 1.
perspectiveTransformHinv(w, u, v) ==
    Pt(w.src[1].x * (w.N - 1) + u * (w.src[2].x - w.src[1].x) + v * (w.src[4].x - w.src[1].x),
       w.src[1].y * (w.N - 1) + u * (w.src[2].y - w.src[1].y) + v * (w.src[4].y - w.src[1].y))

\* cvRound(num / den), den > 0: to nearest, ties to even.
cvRound(num, den) ==
    LET q == num \div den
        r == num - q * den
    IN  IF 2 * r < den THEN q
        ELSE IF 2 * r > den THEN q + 1
        ELSE IF q % 2 = 0 THEN q ELSE q + 1

\* ------------------------------------------------------------------------
\* Grid validation
\* ------------------------------------------------------------------------
\* cv::reduce(mask, ., 0 / 1, REDUCE_SUM, CV_32S): sums of 0 / 255 values.
colsum(mask) == [x \in 0..(mask.cols - 1) |-> 255 * countNonZero(mask, Rect(x, 0, x, mask.rows - 1))]
rowsum(mask) == [y \in 0..(mask.rows - 1) |-> 255 * countNonZero(mask, Rect(0, y, mask.cols - 1, y))]

\* minIndexInRange(vec, lo, hi, .): the first index of the least value in
\* [lo, hi), lo when the range is empty (minIndexInRange_lo answers lo
\* whatever the values).
minIndexInRange_lo(vec, lo, hi) == lo

minIndexInRange(vec, lo, hi) ==
    IF lo >= hi THEN lo
    ELSE CHOOSE i \in lo..(hi - 1) :
            /\ \A j \in lo..(hi - 1) : vec[i] <= vec[j]
            /\ \A j \in lo..(i - 1) : vec[j] > vec[i]

near(x, target, tol) == Abs(x - target) <= tol

checkGridSeams_pre(mask) == ~IsEmpty(mask) /\ mask.type = "CV_8UC1"

\* The variant below searches the windows of the header comment,
\* [W/6, W/2) and [W/2, 5W/6).
checkGridSeams_docWindows(mask) ==
    LET W == mask.cols
        H == mask.rows
        cs == colsum(mask)
        rs == rowsum(mask)
        cx1 == minIndexInRange(cs, W \div 6, W \div 2)
        cx2 == minIndexInRange(cs, W \div 2, (5 * W) \div 6)
        cy1 == minIndexInRange(rs, H \div 6, H \div 2)
        cy2 == minIndexInRange(rs, H \div 2, (5 * H) \div 6)
        tolX == W \div 6
        tolY == H \div 6
        okX == near(cx1, W \div 3, tolX) /\ near(cx2, (2 * W) \div 3, tolX)
        okY == near(cy1, H \div 3, tolY) /\ near(cy2, (2 * H) \div 3, tolY)
        spacing_ok == (cx2 - cx1) > W \div 6 /\ (cy2 - cy1) > H \div 6
    IN  [cx1 |-> cx1, cx2 |-> cx2, cy1 |-> cy1, cy2 |-> cy2,
         ok |-> okX /\ okY /\ spacing_ok]

checkGridSeams(mask) ==
    LET W == mask.cols
        H == mask.rows
        tolX == W \div 6
        tolY == H \div 6
        report(cx1, cx2, cy1, cy2) ==
            LET okX == near(cx1, W \div 3, tolX) /\ near(cx2, (2 * W) \div 3, tolX)
                okY == near(cy1, H \div 3, tolY) /\ near(cy2, (2 * H) \div 3, tolY)
                spacing_ok == (cx2 - cx1) > W \div 6 /\ (cy2 - cy1) > H \div 6
            IN  [cx1 |-> cx1, cx2 |-> cx2, cy1 |-> cy1, cy2 |-> cy2,
                 ok |-> okX /\ okY /\ spacing_ok]
        seamsOf(cs, rs) ==
            report(minIndexInRange(cs, W \div 5, (2 * W) \div 5),
                   minIndexInRange(cs, (3 * W) \div 5, (4 * W) \div 5),
                   minIndexInRange(rs, H \div 5, (2 * H) \div 5),
                   minIndexInRange(rs, (3 * H) \div 5, (4 * H) \div 5))
    IN  seamsOf(colsum(mask), rowsum(mask))

\* safeFraction(roi): 0 on an empty ROI, else countNonZero / total.
safeFraction(mask, r) ==
    IF r.x1 < r.x0 \/ r.y1 < r.y0 THEN Rat(0, 1)
    ELSE Rat(countNonZero(mask, r), (r.x1 - r.x0 + 1) * (r.y1 - r.y0 + 1))

\* The ROI of cell (r, c) of a 3 x 3 partition of an n x n square: the last
\* row and column take the remainder (CellRect_noRemainder gives every cell
\* the side n / 3 instead).
CellRect_noRemainder(n, r, c) ==
    LET cell == n \div 3
    IN  Rect(c * cell, r * cell, c * cell + cell - 1, r * cell + cell - 1)

CellRect(n, r, c) ==
    LET cell == n \div 3
        x == c * cell
        y == r * cell
        w == IF c = 2 THEN n - x ELSE cell
        h == IF r = 2 THEN n - y ELSE cell
    IN  Rect(x, y, x + w - 1, y + h - 1)

checkGridCells_pre(mask) ==
    /\ ~IsEmpty(mask) /\ mask.type = "CV_8UC1"
    /\ mask.rows = mask.cols

checkGridCells(mask, minFraction) ==
    LET report(frac) ==
            [frac |-> frac,
             ok |-> \A r \in 0..2 : \A c \in 0..2 : ~RatLess(frac[r][c], minFraction)]
    IN  report([r \in 0..2 |-> [c \in 0..2 |-> safeFraction(mask, CellRect(mask.rows, r, c))]])

\* The colorful-cells fallback of detect: mean S and mean V of each cell of
\* the warped colour image against the soft thresholds.
SoftS == 70
SoftV == 60

Classes == {"vivid", "pale", "gray", "black"}

ClassCount(img, r, cls) ==
    Cardinality({p \in (r.x0 .. r.x1) \X (r.y0 .. r.y1) : PixelClass(img, p[1], p[2]) = cls})

colorful_cells_ge7_pre(warped) == warped.type = "CV_8UC3" /\ warped.rows = warped.cols

\* The variant below counts a cell only when both means are strictly above
\* the thresholds.
colorful_cells_ge7_strict(warped) ==
    LET Nw == warped.rows
        area(r) == (r.x1 - r.x0 + 1) * (r.y1 - r.y0 + 1)
        sumS(r) == ClassCount(warped, r, "vivid") * ClassS("vivid")
                   + ClassCount(warped, r, "pale") * ClassS("pale")
                   + ClassCount(warped, r, "gray") * ClassS("gray")
        sumV(r) == ClassCount(warped, r, "vivid") * ClassV("vivid")
                   + ClassCount(warped, r, "pale") * ClassV("pale")
                   + ClassCount(warped, r, "gray") * ClassV("gray")
        good(r) == sumS(r) > SoftS * area(r) /\ sumV(r) > SoftV * area(r)
        okCells == Cardinality({rc \in (0..2) \X (0..2) : good(CellRect(Nw, rc[1], rc[2]))})
    IN  okCells >= 7

colorful_cells_ge7(warped) ==
    LET Nw == warped.rows
        area(r) == (r.x1 - r.x0 + 1) * (r.y1 - r.y0 + 1)
        sumS(r) == ClassCount(warped, r, "vivid") * ClassS("vivid")
                   + ClassCount(warped, r, "pale") * ClassS("pale")
                   + ClassCount(warped, r, "gray") * ClassS("gray")
        sumV(r) == ClassCount(warped, r, "vivid") * ClassV("vivid")
                   + ClassCount(warped, r, "pale") * ClassV("pale")
                   + ClassCount(warped, r, "gray") * ClassV("gray")
        good(r) == sumS(r) >= SoftS * area(r) /\ sumV(r) >= SoftV * area(r)
        okCells == Cardinality({rc \in (0..2) \X (0..2) : good(CellRect(Nw, rc[1], rc[2]))})
    IN  okCells >= 7

\* ------------------------------------------------------------------------
\* Polygon refinement (src/src/marker_detector.cpp)
\* ------------------------------------------------------------------------
\* fracPerCol / fracPerRow: colsum / (H * 255), rowsum / (W * 255).
fracPerCol(mask) ==
    LET cs == colsum(mask)
    IN  [x \in 0..(mask.cols - 1) |-> Rat(cs[x], mask.rows * 255)]

fracPerRow(mask) ==
    LET rs == rowsum(mask)
    IN  [y \in 0..(mask.rows - 1) |-> Rat(rs[y], mask.cols * 255)]

\* The lambda findTightRange(fracVec, thr, .) on a vector of length len.
findTightRange(fracVec, len, thr) ==
    LET over == {i \in 0..(len - 1) : RatLess(thr, fracVec[i])}
        L0 == IF over = {} THEN len ELSE CHOOSE i \in over : \A j \in over : i <= j
        R0 == IF over = {} THEN len - 1 ELSE CHOOSE i \in over : \A j \in over : j <= i
        ln == Max(0, R0 - L0 + 1)
        pad == Max(1, (ln * 3) \div 100)
        L == Max(0, L0 + pad)
        R == Max(L, R0 - pad)
    IN  [first |-> L, second |-> R]

\* cv::convexHull + cv::approxPolyDP(eps = 1% of the perimeter) of the four
\* rounded corners: four vertices exactly when the corners are distinct and
\* enclose an area (the coordinates of the model keep eps below one pixel).
approxHasFour(pts) ==
    /\ Cardinality({pts[i] : i \in 1..4}) = 4
    /\ contourArea2(pts) > 0

refinePolygon(warpedMask, warpRes) ==
    LET W == warpedMask.cols
        H == warpedMask.rows
        thr == Rat(10, 100)
        den == warpRes.N - 1
        fromBack(ptsBack) ==
            LET refined_i == [i \in 1..4 |-> Pt(cvRound(ptsBack[i].x, den), cvRound(ptsBack[i].y, den))]
            IN  IF approxHasFour(refined_i) THEN Poly(refined_i, 1) ELSE Poly(ptsBack, den)
        fromBox(boxWarped) ==
            fromBack([i \in 1..4 |-> perspectiveTransformHinv(warpRes, boxWarped[i].x, boxWarped[i].y)])
        fromRanges(rangeX, rangeY) ==
            LET lx == rangeX.first
                rx == rangeX.second
                ty == rangeY.first
                by == rangeY.second
            IN  fromBox(<< Pt(lx, ty), Pt(rx, ty), Pt(rx, by), Pt(lx, by) >>)
    IN  fromRanges(findTightRange(fracPerCol(warpedMask), W, thr),
                   findTightRange(fracPerRow(warpedMask), H, thr))

\* ------------------------------------------------------------------------
\* MarkerDetector::detect, one action per stage
\* ------------------------------------------------------------------------
VARIABLES
    build,        \* which definition of detect is linked: "md", "fb" or "v0"
    seg,          \* which definition of allowedMaskHSV is linked: "v1" or "v2"
    bgr,          \* the input image
    opt,          \* the DetectOptions of the call
    hint,         \* image_path_hint of the call
    env,          \* the file system the debug artifacts go to
    sink,         \* the debug artifacts written so far
    pc,           \* position of the call
    ran,          \* the stages executed so far, in order
    segLog,       \* the allowedMaskHSV calls made: which image, which options
    sopt,         \* SegOptions built for step 1
    mask,         \* allowed-colour mask of the input image
    quadOpt,      \* result of findStrongQuad
    warpRes,      \* result of warpToSquareWithH
    sopt_warp,    \* the warped view's copy of the segmentation options
    warpedMask,   \* allowed-colour mask of the warped view
    seams,        \* checkGridSeams(warpedMask)
    cells,        \* checkGridCells(warpedMask, min_cell_fraction)
    colorful,     \* colorful_cells_ge7
    grid_ok,      \* the grid decision
    poly,         \* the polygon whose coverage is computed
    cov,          \* polygonCoveragePercent of poly
    ret,          \* what detect returned
    peer,         \* a second call of detect on the same detector: its frame
    gPoly,        \* direct call of polygonCoveragePercent: polygon argument
    gSize,        \* direct call of polygonCoveragePercent: image size argument
    gCov,         \* direct call of polygonCoveragePercent: value returned
    kImg,         \* direct call of allowedMaskHSV: the image
    kOpt,         \* direct call of allowedMaskHSV: the SegOptions
    kPc,          \* direct call of allowedMaskHSV: position
    kMask,        \* direct call of allowedMaskHSV: the mask so far
    kLog,         \* direct call of allowedMaskHSV: the mask computations made
    cMask,        \* direct call of a helper: its argument
    cRep          \* direct call of a helper: what the call produced

detectVars == << build, bgr, opt, pc, ran, segLog, sopt, mask, quadOpt, warpRes,
                 sopt_warp, warpedMask, seams, cells, colorful, grid_ok, poly, cov, ret >>
geomVars == << gPoly, gSize, gCov >>
segVars == << kImg, kOpt, kPc, kMask, kLog >>
cellVars == << cMask, cRep >>
callVars == << seg, hint, env >>
vars == << detectVars, callVars, sink, peer, geomVars, segVars, cellVars >>

Builds == {"md", "fb", "v0"}

\* Defaults of DetectOptions (src/include/marker_types.hpp).
DefaultSegSmin == 80
DefaultSegVmin == 65
DefaultBlurKsize == 3
DefaultOpenIter == 1
DefaultCloseIter == 2
DefaultMinCellPct == 15
MinWarp == 32

DefaultWarpSize == 320

\* The fields of DetectOptions the algorithm reads.
AlgoOptions ==
    [strict_grid : BOOLEAN,
     warp_size : {MinWarp \div 2, MaxWarpSize},
     min_cell_fraction : {Rat(DefaultMinCellPct, 100)},
     pre_blur_ksize : {DefaultBlurKsize},
     morph_open_iter : {DefaultOpenIter},
     morph_close_iter : {DefaultCloseIter},
     seg_smin : {DefaultSegSmin},
     seg_vmin : {DefaultSegVmin}]

\* The debug side of a call: the debug fields of DetectOptions, the name
\* hint, and the file system ("ok"; "readonly": every create_directories /
\* imwrite fails; "nocwd": the working directory has been removed, so every
\* operation on a relative path fails).
SinkScenarios ==
    { [debug |-> FALSE, save_debug |-> FALSE, save_debug_dir |-> "out", hint |-> "", env |-> "ok"],
      [debug |-> TRUE, save_debug |-> FALSE, save_debug_dir |-> "out", hint |-> "in/", env |-> "ok"],
      [debug |-> TRUE, save_debug |-> TRUE, save_debug_dir |-> "out", hint |-> "shot.png", env |-> "ok"],
      [debug |-> FALSE, save_debug |-> TRUE, save_debug_dir |-> "out", hint |-> "", env |-> "readonly"],
      [debug |-> TRUE, save_debug |-> TRUE, save_debug_dir |-> "/tmp/dbg", hint |-> "", env |-> "readonly"],
      [debug |-> TRUE, save_debug |-> TRUE, save_debug_dir |-> "out", hint |-> "", env |-> "nocwd"] }

WithSink(a, sc) ==
    [strict_grid |-> a.strict_grid, warp_size |-> a.warp_size,
     min_cell_fraction |-> a.min_cell_fraction, pre_blur_ksize |-> a.pre_blur_ksize,
     morph_open_iter |-> a.morph_open_iter, morph_close_iter |-> a.morph_close_iter,
     seg_smin |-> a.seg_smin, seg_vmin |-> a.seg_vmin,
     debug |-> sc.debug, save_debug |-> sc.save_debug, save_debug_dir |-> sc.save_debug_dir]

Options == { WithSink(a, sc) : a \in AlgoOptions, sc \in SinkScenarios }

\* What the input image shows, by layout name.
OrigPaint(name, s) ==
    LET E(r, c) == [r |-> r, cls |-> c]
    IN  CASE name = "small" -> << E(Rect(5, 5, 7, 7), "vivid") >>
          [] name = "large" -> << E(Rect(0, 0, s - 1, s - 1), "vivid") >>
          [] name = "medium" -> << E(Rect(3, 4, 20, 25), "vivid") >>
          [] name = "two" -> << E(Rect(1, 1, 4, 4), "vivid"), E(Rect(10, 10, 25, 22), "vivid") >>
          [] name = "fringe" -> << E(Rect(1, 1, 26, 28), "pale"), E(Rect(6, 6, 21, 23), "vivid") >>
          [] OTHER -> << >>

WarpLayouts == {"full", "hole", "sparse", "faint", "halo", "band", "blank", "dim"}

\* The scenes given to detect: what the image shows and what its warped view shows.
Scenes ==
    { <<"none", "blank">>, <<"small", "full">>, <<"two", "full">>,
      <<"medium", "full">>, <<"medium", "halo">>, <<"medium", "hole">>,
      <<"fringe", "sparse">>, <<"fringe", "full">> }
    \cup { <<"large", w>> : w \in WarpLayouts }

Images ==
    { Image(ImgSide, ImgSide, "CV_8UC3", OrigPaint(sc[1], ImgSide), sc[2]) : sc \in Scenes }
    \cup { Image(0, 0, "CV_8UC3", << >>, "blank"),
           Image(ImgSide, ImgSide, "CV_8UC1", OrigPaint("large", ImgSide), "full"),
           Image(ImgSide, ImgSide, "CV_8UC4", OrigPaint("large", ImgSide), "full") }

NotFound == [found |-> FALSE]
Found(p, c, g) == [found |-> TRUE, polygon |-> p, coverage_percent |-> c, grid_ok |-> g]

\* One call of detect: its arguments, its position and its locals.  `saved`
\* holds the artifacts the stage just executed has written.
NewFrame(b, sg, img, o, h, e) ==
    [build |-> b, seg |-> sg, bgr |-> img, opt |-> o, hint |-> h, env |-> e,
     pc |-> "guard", ran |-> << >>, segLog |-> << >>,
     sopt |-> NoValue, mask |-> NoValue, quadOpt |-> NoValue, warpRes |-> NoValue,
     sopt_warp |-> NoValue, warpedMask |-> NoValue, seams |-> NoValue, cells |-> NoValue,
     colorful |-> NoValue, grid_ok |-> NoValue, poly |-> NoValue, cov |-> NoValue,
     ret |-> NoValue, saved |-> << >>]

Began(f, stage) == [f EXCEPT !.ran = Append(@, stage), !.saved = << >>]
Returns(f, r) == [f EXCEPT !.pc = "done", !.ret = r]
Raises(f) == [f EXCEPT !.pc = "raised", !.ret = NoValue]

\* makeBaseName: "image" for an empty hint or an empty stem; the stem of
\* "shot.png" is "shot", that of "in/" is empty.
makeBaseName(path_hint) ==
    IF path_hint = "" THEN "image"
    ELSE LET stem == CASE path_hint = "shot.png" -> "shot" [] OTHER -> ""
         IN  IF stem = "" THEN "image" ELSE stem

\* saveIf: does nothing unless enabled; create_directories + imwrite, every
\* failure caught.  The write succeeds when the file system allows it.
saveIf(f, suffix) ==
    IF f.opt.save_debug /\ f.env = "ok"
    THEN [f EXCEPT !.saved = Append(@, [dir |-> f.opt.save_debug_dir,
                                         name |-> makeBaseName(f.hint),
                                         suffix |-> suffix])]
    ELSE f

\* fs::absolute(outdir) asks for the current directory when outdir is relative
\* ("/tmp/dbg" is the absolute one here) and throws filesystem_error when
\* there is none.
absoluteThrows(dir, e) == dir # "/tmp/dbg" /\ e = "nocwd"

\* "Input guard": the image is rejected before anything else runs.  The
\* variant below forgets the type test.
inputRejected_emptyOnly(img) == IsEmpty(img)

inputRejected(img) == IsEmpty(img) \/ img.type # "CV_8UC3"

guardStage(f) ==
    LET g == Began(f, "guard")
    IN  IF inputRejected(f.bgr) THEN Returns(g, NotFound)
        ELSE IF f.opt.save_debug /\ f.opt.debug /\ absoluteThrows(f.opt.save_debug_dir, f.env)
             THEN Raises(g)
             ELSE [g EXCEPT !.pc = "segment"]

\* (1) HSV segmentation of the input image.  The variant below keeps the
\* options in a function-local static that the warp stage overwrites.
makeSegOptions_static(o) ==
    IF sopt_warp # NoValue THEN sopt_warp
    ELSE [blur_ksize |-> o.pre_blur_ksize, open_iter |-> o.morph_open_iter,
          close_iter |-> o.morph_close_iter, smin |-> o.seg_smin, vmin |-> o.seg_vmin]

makeSegOptions(o) ==
    [blur_ksize |-> o.pre_blur_ksize, open_iter |-> o.morph_open_iter,
     close_iter |-> o.morph_close_iter, smin |-> o.seg_smin, vmin |-> o.seg_vmin]

segmentStage(f) ==
    LET so == makeSegOptions(f.opt)
        g == [Began(f, "segment") EXCEPT !.sopt = so,
                                         !.segLog = Append(@, [image |-> "bgr", opt |-> so])]
    IN  IF allowedMaskHSV_pre(f.bgr)
        THEN saveIf([g EXCEPT !.mask = segmentWith(f.seg, f.bgr, so), !.pc = "quad"], "_mask.png")
        ELSE Raises(g)

\* (2) Quad extraction; no quad ends the call.  The variant below never
\* takes the early return.
quadMissing_never(q) == FALSE

quadMissing(q) == q = NoValue

\* The variant of the quad search that works in one buffer shared by all calls.
findStrongQuad_sharedBuffer(m) ==
    IF mask # NoValue /\ findStrongQuad_pre(mask) THEN findStrongQuad(mask) ELSE findStrongQuad(m)

quadOf(m) == findStrongQuad(m)

quadStage(f) ==
    LET g == Began(f, "quad")
    IN  IF ~findStrongQuad_pre(f.mask) THEN Raises(g)
        ELSE LET withQuad(q) ==
                     IF quadMissing(q) THEN Returns([g EXCEPT !.quadOpt = q], NotFound)
                     ELSE saveIf([g EXCEPT !.quadOpt = q, !.pc = "warp"], "_poly.png")
             IN  withQuad(quadOf(f.mask))

\* (3) Warp to the N x N square and segment the warped view.
\* N = std::max(32, opt.warp_size); warpSide_raw takes warp_size as given.
warpSide_raw(o) == o.warp_size

warpSide(o) == Max(MinWarp, o.warp_size)

\* "frac < 0.03" with frac = countNonZero(warpedMask) / max(1, total).
warpedIsSparse(m) == 100 * countNonZero(m, WholeOf(m)) < 3 * Max(1, m.cols * m.rows)

relaxForWarp(so) ==
    [so EXCEPT !.smin = Max(0, so.smin - 20),
               !.vmin = Max(0, so.vmin - 20),
               !.close_iter = Max(1, so.close_iter)]

warpStage_md(f) ==
    LET g == Began(f, "warp")
        withWarp(wr) ==
            LET h == [g EXCEPT !.warpRes = wr,
                               !.segLog = Append(@, [image |-> "warped", opt |-> f.sopt])]
            IN  IF allowedMaskHSV_pre(wr.image)
                THEN saveIf(saveIf([h EXCEPT !.warpedMask = segmentWith(f.seg, wr.image, f.sopt),
                                          !.pc = "grid"], "_warped.png"), "_warped_mask.png")
                ELSE Raises(h)
    IN  IF ~warpToSquareWithH_pre(f.bgr, f.quadOpt, warpSide(f.opt)) THEN Raises(g)
        ELSE withWarp(warpToSquareWithH(f.bgr, f.quadOpt, warpSide(f.opt)))

\* A variant of the warped-view relaxation that relaxes the options of
\* step 2 in place instead of a local copy.
warpStage_fb_inPlace(f) ==
    LET g == Began(f, "warp")
    IN  IF ~warpToSquareWithH_pre(f.bgr, f.quadOpt, warpSide(f.opt)) THEN Raises(g)
        ELSE LET wr == warpToSquareWithH(f.bgr, f.quadOpt, warpSide(f.opt))
                 h == [g EXCEPT !.warpRes = wr,
                                !.segLog = Append(@, [image |-> "warped", opt |-> f.sopt])]
             IN  IF ~allowedMaskHSV_pre(wr.image) THEN Raises(h)
                 ELSE LET first == segmentWith(f.seg, wr.image, f.sopt)
                          relaxed == relaxForWarp(f.sopt)
                      IN  IF warpedIsSparse(first)
                          THEN saveIf(saveIf([h EXCEPT
                                   !.sopt = relaxed,
                                   !.sopt_warp = relaxed,
                                   !.warpedMask = segmentWith(f.seg, wr.image, relaxed),
                                   !.segLog = Append(@, [image |-> "warped", opt |-> relaxed]),
                                   !.pc = "grid"], "_warped.png"), "_warped_mask.png")
                          ELSE saveIf(saveIf([h EXCEPT !.sopt_warp = f.sopt,
                                                    !.warpedMask = first,
                                                    !.pc = "grid"], "_warped.png"), "_warped_mask.png")

warpStage_fb(f) ==
    LET g == Began(f, "warp")
        relaxed == relaxForWarp(f.sopt)
        withFirst(h, wr, first) ==
            IF warpedIsSparse(first)
            THEN saveIf(saveIf([h EXCEPT
                     !.sopt_warp = relaxed,
                     !.warpedMask = segmentWith(f.seg, wr.image, relaxed),
                     !.segLog = Append(@, [image |-> "warped", opt |-> relaxed]),
                     !.pc = "grid"], "_warped.png"), "_warped_mask.png")
            ELSE saveIf(saveIf([h EXCEPT !.sopt_warp = f.sopt,
                                      !.warpedMask = first,
                                      !.pc = "grid"], "_warped.png"), "_warped_mask.png")
        withWarp(wr) ==
            LET h == [g EXCEPT !.warpRes = wr,
                               !.segLog = Append(@, [image |-> "warped", opt |-> f.sopt])]
            IN  IF ~allowedMaskHSV_pre(wr.image) THEN Raises(h)
                ELSE withFirst(h, wr, segmentWith(f.seg, wr.image, f.sopt))
    IN  IF ~warpToSquareWithH_pre(f.bgr, f.quadOpt, warpSide(f.opt)) THEN Raises(g)
        ELSE withWarp(warpToSquareWithH(f.bgr, f.quadOpt, warpSide(f.opt)))

\* (4) Grid validation and the grid decision of each definition.
gridDecision_md(strict, s, c, colorfulEnough) == c.ok

\* The variant below joins seams and cells with || instead of &&.
gridDecision_fb_or(strict, s, c, colorfulEnough) ==
    IF strict THEN s.ok \/ c.ok ELSE c.ok \/ colorfulEnough

gridDecision_fb(strict, s, c, colorfulEnough) ==
    IF strict THEN s.ok /\ c.ok ELSE c.ok \/ colorfulEnough

gridDecision_v0(strict, s, c, colorfulEnough) == s.ok /\ c.ok

gridDecision(b, strict, s, c, colorfulEnough) ==
    CASE b = "md" -> gridDecision_md(strict, s, c, colorfulEnough)
      [] b = "fb" -> gridDecision_fb(strict, s, c, colorfulEnough)
      [] OTHER -> gridDecision_v0(strict, s, c, colorfulEnough)

gridStage(f) ==
    LET g == Began(f, "grid")
    IN  IF ~(checkGridSeams_pre(f.warpedMask) /\ checkGridCells_pre(f.warpedMask)
             /\ (f.build = "fb" => colorful_cells_ge7_pre(f.warpRes.image)))
        THEN Raises(g)
        ELSE LET decided(s, c, k) ==
                     [g EXCEPT !.seams = s, !.cells = c, !.colorful = k,
                               !.grid_ok = gridDecision(f.build, f.opt.strict_grid, s, c,
                                                        f.build = "fb" /\ k),
                               !.pc = IF f.build = "v0" THEN "coverage" ELSE "refine"]
             IN  decided(checkGridSeams(f.warpedMask),
                         checkGridCells(f.warpedMask, f.opt.min_cell_fraction),
                         IF f.build = "fb" THEN colorful_cells_ge7(f.warpRes.image) ELSE f.colorful)

\* (5) The polygon to report.
finalPolygon_md(q, wm, wr) == refinePolygon(wm, wr)

finalPolygon_fb(q, wm, wr) == q

refineStage(f) ==
    LET g == Began(f, IF f.build = "md" THEN "refine" ELSE "final_poly")
        p == IF f.build = "md" THEN finalPolygon_md(f.quadOpt, f.warpedMask, f.warpRes)
             ELSE finalPolygon_fb(f.quadOpt, f.warpedMask, f.warpRes)
    IN  saveIf([g EXCEPT !.poly = p, !.pc = "coverage"], "_poly_refined.png")

\* (6) Coverage; the definition "fb" rejects a coverage below kMinCovPct = 0.5.
sizeOf(img) == [width |-> img.cols, height |-> img.rows]

coverageGuardFails(b, c) == b = "fb" /\ RatLess(c, Rat(1, 2))

coverageStage(f) ==
    LET g == Began(f, "coverage")
        p == IF f.build = "v0" THEN f.quadOpt ELSE f.poly
        c == polygonCoveragePercent(p, sizeOf(f.bgr))
        h == [g EXCEPT !.poly = p, !.cov = c]
    IN  IF coverageGuardFails(f.build, c) THEN Returns(h, NotFound) ELSE [h EXCEPT !.pc = "package"]

\* "Package result": in strict mode a failed grid decision discards it.  The
\* variant below has the test on grid_ok inverted.
strictRejects_inverted(strict, g) == strict /\ g

strictRejects(strict, g) == strict /\ ~g

packageStage(f) ==
    LET g == Began(f, "package")
    IN  IF strictRejects(f.opt.strict_grid, f.grid_ok) THEN Returns(g, NotFound)
        ELSE Returns(g, Found(f.poly, f.cov, f.grid_ok))

\* The body of detect, one stage at a time, and run to its end.
stepFrame(f) ==
    CASE f.pc = "guard" -> guardStage(f)
      [] f.pc = "segment" -> segmentStage(f)
      [] f.pc = "quad" -> quadStage(f)
      [] f.pc = "warp" -> IF f.build = "fb" THEN warpStage_fb(f) ELSE warpStage_md(f)
      [] f.pc = "grid" -> gridStage(f)
      [] f.pc = "refine" -> refineStage(f)
      [] f.pc = "coverage" -> coverageStage(f)
      [] f.pc = "package" -> packageStage(f)
      [] OTHER -> f

Ended(f) == f.pc \in {"done", "raised"}

RECURSIVE runFrame(_)
runFrame(f) == IF Ended(f) THEN f ELSE runFrame(stepFrame(f))

detect(b, sg, img, o, h, e) == runFrame(NewFrame(b, sg, img, o, h, e))

\* What the caller observes of a finished call.
Outcome(f) == IF f.pc = "raised" THEN [raised |-> TRUE] ELSE [raised |-> FALSE, ret |-> f.ret]

\* The call in progress, as a frame, and the assignment of a frame to it.
Frame ==
    [build |-> build, seg |-> seg, bgr |-> bgr, opt |-> opt, hint |-> hint, env |-> env,
     pc |-> pc, ran |-> ran, segLog |-> segLog, sopt |-> sopt, mask |-> mask,
     quadOpt |-> quadOpt, warpRes |-> warpRes, sopt_warp |-> sopt_warp,
     warpedMask |-> warpedMask, seams |-> seams, cells |-> cells, colorful |-> colorful,
     grid_ok |-> grid_ok, poly |-> poly, cov |-> cov, ret |-> ret, saved |-> << >>]

Apply(g) ==
    \E f \in {g} :
        /\ build' = f.build /\ seg' = f.seg /\ bgr' = f.bgr /\ opt' = f.opt
        /\ hint' = f.hint /\ env' = f.env
        /\ pc' = f.pc /\ ran' = f.ran /\ segLog' = f.segLog
        /\ sopt' = f.sopt /\ mask' = f.mask /\ quadOpt' = f.quadOpt /\ warpRes' = f.warpRes
        /\ sopt_warp' = f.sopt_warp /\ warpedMask' = f.warpedMask
        /\ seams' = f.seams /\ cells' = f.cells /\ colorful' = f.colorful
        /\ grid_ok' = f.grid_ok /\ poly' = f.poly /\ cov' = f.cov /\ ret' = f.ret
        /\ sink' = sink \o f.saved

Guard == pc = "guard" /\ Apply(guardStage(Frame)) /\ UNCHANGED << peer, geomVars, segVars, cellVars >>

Segment == pc = "segment" /\ Apply(segmentStage(Frame)) /\ UNCHANGED << peer, geomVars, segVars, cellVars >>

FindQuad == pc = "quad" /\ Apply(quadStage(Frame)) /\ UNCHANGED << peer, geomVars, segVars, cellVars >>

Warp_md ==
    /\ pc = "warp" /\ build \in {"md", "v0"}
    /\ Apply(warpStage_md(Frame))
    /\ UNCHANGED << peer, geomVars, segVars, cellVars >>

Warp_fb ==
    /\ pc = "warp" /\ build = "fb"
    /\ Apply(warpStage_fb(Frame))
    /\ UNCHANGED << peer, geomVars, segVars, cellVars >>

Grid == pc = "grid" /\ Apply(gridStage(Frame)) /\ UNCHANGED << peer, geomVars, segVars, cellVars >>

Refine == pc = "refine" /\ Apply(refineStage(Frame)) /\ UNCHANGED << peer, geomVars, segVars, cellVars >>

Coverage == pc = "coverage" /\ Apply(coverageStage(Frame)) /\ UNCHANGED << peer, geomVars, segVars, cellVars >>

Package == pc = "package" /\ Apply(packageStage(Frame)) /\ UNCHANGED << peer, geomVars, segVars, cellVars >>

HarnessesIdle ==
    /\ gPoly = NoValue /\ gSize = NoValue /\ gCov = NoValue
    /\ kImg = NoValue /\ kOpt = NoValue /\ kPc = "off" /\ kMask = NoValue /\ kLog = << >>
    /\ cMask = NoValue /\ cRep = NoValue

InitCall(b, sg, img, a, sc) ==
    /\ build = b /\ seg = sg /\ bgr = img
    /\ opt = WithSink(a, sc) /\ hint = sc.hint /\ env = sc.env
    /\ pc = "guard"
    /\ ran = << >>
    /\ segLog = << >>
    /\ sopt = NoValue /\ mask = NoValue /\ quadOpt = NoValue /\ warpRes = NoValue
    /\ sopt_warp = NoValue /\ warpedMask = NoValue /\ seams = NoValue /\ cells = NoValue
    /\ colorful = NoValue /\ grid_ok = NoValue /\ poly = NoValue /\ cov = NoValue
    /\ ret = NoValue
    /\ sink = << >>

\* The calls explored: every algorithmic option without debugging, and every
\* debug scenario at the larger warp size.
QuietScenario ==
    [debug |-> FALSE, save_debug |-> FALSE, save_debug_dir |-> "out", hint |-> "", env |-> "ok"]

Init ==
    /\ \E b \in Builds, sg \in Segmenters, img \in Images, a \in AlgoOptions, sc \in SinkScenarios :
          /\ sc = QuietScenario \/ a.warp_size = MaxWarpSize
          /\ InitCall(b, sg, img, a, sc)
    /\ peer = NoValue
    /\ HarnessesIdle

Next ==
    \/ Guard
    \/ Segment
    \/ FindQuad
    \/ Warp_md
    \/ Warp_fb
    \/ Grid
    \/ Refine
    \/ Coverage
    \/ Package

Spec == Init /\ [][Next]_vars

\* ------------------------------------------------------------------------
\* Two calls of detect on one MarkerDetector
\* ------------------------------------------------------------------------
\* One stage of the second call.  Its locals are its own; the debug sink is
\* the only thing it has in common with the first.
PeerStep ==
    /\ peer # NoValue /\ ~Ended(peer)
    /\ peer' = stepFrame(peer)
    /\ sink' = sink \o peer'.saved
    /\ UNCHANGED << detectVars, callVars, geomVars, segVars, cellVars >>

\* The second call starts when the first has ended, with the same arguments.
SecondCall ==
    /\ pc \in {"done", "raised"} /\ peer = NoValue
    /\ peer' = NewFrame(build, seg, bgr, opt, hint, env)
    /\ UNCHANGED << detectVars, callVars, sink, geomVars, segVars, cellVars >>

SavingScenario ==
    [debug |-> TRUE, save_debug |-> TRUE, save_debug_dir |-> "out", hint |-> "shot.png", env |-> "ok"]

InitTwice ==
    /\ \E b \in Builds, sg \in Segmenters, img \in Images, a \in { x \in AlgoOptions : x.warp_size = MaxWarpSize },
          sc \in {QuietScenario, SavingScenario} :
          InitCall(b, sg, img, a, sc)
    /\ peer = NoValue
    /\ HarnessesIdle

NextTwice ==
    \/ Guard
    \/ Segment
    \/ FindQuad
    \/ Warp_md
    \/ Warp_fb
    \/ Grid
    \/ Refine
    \/ Coverage
    \/ Package
    \/ SecondCall
    \/ PeerStep

SpecTwice == InitTwice /\ [][NextTwice]_vars

\* Two calls in flight at once, on images and options of their own.
ConcImages ==
    { Image(ImgSide, ImgSide, "CV_8UC3", OrigPaint(sc[1], ImgSide), sc[2]) :
        sc \in { <<"large", "full">>, <<"fringe", "sparse">>, <<"none", "blank">> } }

ConcOptions ==
    { WithSink(a, sc) : a \in { x \in AlgoOptions : x.warp_size = MaxWarpSize /\ x.strict_grid },
                        sc \in {QuietScenario, SavingScenario} }

InitConc ==
    /\ \E b \in {"md", "fb"}, img \in ConcImages, a \in { x \in AlgoOptions : x.warp_size = MaxWarpSize /\ x.strict_grid } :
          InitCall(b, "v2", img, a, SavingScenario)
    /\ \E img \in ConcImages, o \in ConcOptions :
          peer = NewFrame(build, seg, img, o, IF o.debug THEN "shot.png" ELSE "", env)
    /\ HarnessesIdle

NextConc ==
    \/ Guard
    \/ Segment
    \/ FindQuad
    \/ Warp_md
    \/ Warp_fb
    \/ Grid
    \/ Refine
    \/ Coverage
    \/ Package
    \/ PeerStep

SpecConc == InitConc /\ [][NextConc]_vars

\* ------------------------------------------------------------------------
\* detect on the synthetic board of the tests, with default options
\* ------------------------------------------------------------------------
BoardSide == 300

DefaultAlgo ==
    [strict_grid |-> TRUE, warp_size |-> DefaultWarpSize,
     min_cell_fraction |-> Rat(DefaultMinCellPct, 100),
     pre_blur_ksize |-> DefaultBlurKsize, morph_open_iter |-> DefaultOpenIter,
     morph_close_iter |-> DefaultCloseIter,
     seg_smin |-> DefaultSegSmin, seg_vmin |-> DefaultSegVmin]

\* The marker fills the frame and every pixel has an allowed colour, in the
\* image and in its warped view.
Board == Image(BoardSide, BoardSide, "CV_8UC3", OrigPaint("large", BoardSide), "full")

InitBoard ==
    /\ \E b \in Builds, sg \in Segmenters, sc \in { x \in SinkScenarios : x.env = "ok" } :
          InitCall(b, sg, Board, DefaultAlgo, sc)
    /\ peer = NoValue
    /\ HarnessesIdle

SpecBoard == InitBoard /\ [][Next]_vars

\* ------------------------------------------------------------------------
\* Direct calls of geom::polygonCoveragePercent (as the tests make them)
\* ------------------------------------------------------------------------
GeomPoints == { Pt(x, y) : x \in 0..MaxCoord, y \in 0..MaxCoord }

GeomRects ==
    { RectContour(Rect(x0, y0, x1, y1)) :
        x0 \in 0..MaxCoord, x1 \in 0..MaxCoord, y0 \in 0..MaxCoord, y1 \in 0..MaxCoord }

GeomPolys ==
    { Poly(p, 1) : p \in UNION { [1..n -> GeomPoints] : n \in 0..3 } \cup GeomRects }

GeomSizes == [width : {-1, 0, 1, MaxCoord}, height : {-1, 0, 1, MaxCoord}]

CallCoverage ==
    /\ pc = "idle" /\ gCov = NoValue
    /\ \E p \in GeomPolys, sz \in GeomSizes :
          /\ gPoly' = p
          /\ gSize' = sz
          /\ gCov' = polygonCoveragePercent(p, sz)
    /\ UNCHANGED << detectVars, callVars, sink, peer, segVars, cellVars >>

InitGeom ==
    /\ build = "md" /\ seg = "v2"
    /\ bgr = NoValue /\ opt = NoValue /\ hint = "" /\ env = "ok"
    /\ pc = "idle"
    /\ ran = << >>
    /\ segLog = << >>
    /\ sopt = NoValue /\ mask = NoValue /\ quadOpt = NoValue /\ warpRes = NoValue
    /\ sopt_warp = NoValue /\ warpedMask = NoValue /\ seams = NoValue /\ cells = NoValue
    /\ colorful = NoValue /\ grid_ok = NoValue /\ poly = NoValue /\ cov = NoValue
    /\ ret = NoValue
    /\ sink = << >> /\ peer = NoValue
    /\ HarnessesIdle

NextGeom == CallCoverage

SpecGeom == InitGeom /\ [][NextGeom]_vars

\* ------------------------------------------------------------------------
\* Direct calls of ColorSegmenter::allowedMaskHSV, one action per mask step
\* ------------------------------------------------------------------------
SegCols == 40
SegRows == 30

\* The thresholds one mask computation applies to the seven templates.
Computed(ver, m) ==
    [smin |-> m.smin, vmin |-> m.vmin,
     ranges |-> [i \in 1..Len(Templates) |->
                    IF ver = "v1" THEN applySV_v1(Templates[i], m.smin, m.vmin)
                    ELSE applySV(Templates[i], m.smin, m.vmin)]]

\* The pictures of the calls, each with one of the rims build_white_rim
\* can find on the bright band of the last picture.
SegImages ==
    LET E(r, c) == [r |-> r, cls |-> c]
        all == Rect(0, 0, SegCols - 1, SegRows - 1)
        paints == { << >>,
                    << E(all, "vivid") >>,
                    << E(Rect(7, 7, 7, 7), "vivid") >>,
                    << E(Rect(0, 0, 9, 9), "pale") >>,
                    << E(all, "deep") >>,
                    << E(all, "vivid"), E(Rect(0, 0, SegCols - 1, 20), "shine") >> }
        rims == { << >>,
                  << Rect(0, 0, SegCols - 1, 8) >>,
                  << Rect(0, 0, 20, 19) >>,
                  << Rect(0, 0, SegCols - 1, 11) >>,
                  << Rect(0, 0, SegCols - 1, 20) >> }
    IN  { [Image(SegCols, SegRows, "CV_8UC3", pt, "blank") EXCEPT !.rim = rm] :
            pt \in paints, rm \in rims }

\* blur_ksize < 3 and no opening or closing: the morphology is skipped.
SegOptionsSet ==
    [blur_ksize : {0}, open_iter : {0}, close_iter : {0}, smin : {5, 90, 220}, vmin : {5, 80}]

SegBase ==
    /\ kPc = "base" /\ allowedMaskHSV_pre(kImg)
    /\ IF seg = "v1"
       THEN kMask' = allowedMaskHSV_v1(kImg, kOpt) /\ kPc' = "done"
       ELSE kMask' = buildAllowedMaskHSV(kImg, kOpt.smin, kOpt.vmin) /\ kPc' = "rim"
    /\ kLog' = << Computed(seg, kMask') >>
    /\ UNCHANGED << detectVars, callVars, sink, peer, geomVars, cellVars, kImg, kOpt >>

SegRim ==
    /\ kPc = "rim"
    /\ kMask' = whiteRimStep(kImg, kMask)
    /\ kPc' = "relax"
    /\ UNCHANGED << detectVars, callVars, sink, peer, geomVars, cellVars, kImg, kOpt, kLog >>

\* One turn of the loop of gentleRelaxIfSparse; attempt = Len(kLog) - 1.
SegRetry ==
    /\ kPc = "relax"
    /\ Len(kLog) - 1 < RelaxAttempts /\ isSparse(kMask)
    /\ kMask' = relaxOnce(kImg, kMask)
    /\ kLog' = Append(kLog, Computed(seg, kMask'))
    /\ UNCHANGED << detectVars, callVars, sink, peer, geomVars, cellVars, kImg, kOpt, kPc >>

SegRelaxEnd ==
    /\ kPc = "relax"
    /\ ~(Len(kLog) - 1 < RelaxAttempts /\ isSparse(kMask))
    /\ kPc' = "morph"
    /\ UNCHANGED << detectVars, callVars, sink, peer, geomVars, cellVars, kImg, kOpt, kMask, kLog >>

SegMorph ==
    /\ kPc = "morph"
    /\ kOpt.open_iter <= 0 /\ kOpt.close_iter <= 0
    /\ kPc' = "done"
    /\ UNCHANGED << detectVars, callVars, sink, peer, geomVars, cellVars, kImg, kOpt, kMask, kLog >>

InitSeg ==
    /\ build = "md" /\ seg \in Segmenters
    /\ bgr = NoValue /\ opt = NoValue /\ hint = "" /\ env = "ok"
    /\ pc = "idle"
    /\ ran = << >>
    /\ segLog = << >>
    /\ sopt = NoValue /\ mask = NoValue /\ quadOpt = NoValue /\ warpRes = NoValue
    /\ sopt_warp = NoValue /\ warpedMask = NoValue /\ seams = NoValue /\ cells = NoValue
    /\ colorful = NoValue /\ grid_ok = NoValue /\ poly = NoValue /\ cov = NoValue
    /\ ret = NoValue
    /\ sink = << >> /\ peer = NoValue
    /\ gPoly = NoValue /\ gSize = NoValue /\ gCov = NoValue
    /\ cMask = NoValue /\ cRep = NoValue
    /\ kImg \in { i \in SegImages : i.rim = << >> \/ "shine" \in PaintClasses(i.paint) }
    /\ kOpt \in SegOptionsSet
    /\ kPc = "base" /\ kMask = NoValue /\ kLog = << >>

NextSeg ==
    \/ SegBase
    \/ SegRim
    \/ SegRetry
    \/ SegRelaxEnd
    \/ SegMorph

SpecSeg == InitSeg /\ [][NextSeg]_vars

\* ------------------------------------------------------------------------
\* Direct calls of grid::checkGridCells
\* ------------------------------------------------------------------------
MaxCellSide == 10

\* The masks of the calls: every size up to MaxCellSide (square or not,
\* empty or not), blank, full, a lit corner, a lit stripe, or every other
\* row lit.
CellMasks ==
    LET E(r, c) == [r |-> r, cls |-> c]
        sides == 0..MaxCellSide
        paints(w, h) ==
            { << >>,
              << E(Rect(0, 0, w - 1, h - 1), "vivid") >>,
              << E(Rect(0, 0, 2, 2), "vivid") >>,
              << E(Rect(0, 0, 1, h - 1), "vivid") >>,
              << E(Rect(0, 0, w - 1, 0), "vivid"), E(Rect(0, 2, w - 1, 2), "vivid"),
                 E(Rect(0, 4, w - 1, 4), "vivid") >> }
    IN  UNION { { buildAllowedMaskHSV(Image(w, h, "CV_8UC3", pt, "blank"),
                                      DefaultSegSmin, DefaultSegVmin) : pt \in paints(w, h) } :
                  <<w, h>> \in sides \X sides }

\* The call either throws (a failed CV_Assert) or produces its report;
\* minFraction is the default or one of 0, 1/2, 1.
CallCells ==
    /\ pc = "idle" /\ cMask # NoValue /\ cRep = NoValue
    /\ \E pct \in {0, DefaultMinCellPct, 50, 100} :
          cRep' = IF checkGridCells_pre(cMask)
                  THEN [raised |-> FALSE, minFraction |-> Rat(pct, 100),
                        report |-> checkGridCells(cMask, Rat(pct, 100))]
                  ELSE [raised |-> TRUE]
    /\ UNCHANGED << detectVars, callVars, sink, peer, geomVars, segVars, cMask >>

InitCells ==
    /\ build = "md" /\ seg = "v2"
    /\ bgr = NoValue /\ opt = NoValue /\ hint = "" /\ env = "ok"
    /\ pc = "idle"
    /\ ran = << >>
    /\ segLog = << >>
    /\ sopt = NoValue /\ mask = NoValue /\ quadOpt = NoValue /\ warpRes = NoValue
    /\ sopt_warp = NoValue /\ warpedMask = NoValue /\ seams = NoValue /\ cells = NoValue
    /\ colorful = NoValue /\ grid_ok = NoValue /\ poly = NoValue /\ cov = NoValue
    /\ ret = NoValue
    /\ sink = << >> /\ peer = NoValue
    /\ gPoly = NoValue /\ gSize = NoValue /\ gCov = NoValue
    /\ kImg = NoValue /\ kOpt = NoValue /\ kPc = "off" /\ kMask = NoValue /\ kLog = << >>
    /\ cMask \in CellMasks
    /\ cRep = NoValue

SpecCells == InitCells /\ [][CallCells]_vars

\* ------------------------------------------------------------------------
\* Direct calls of grid::checkGridSeams, geom::findStrongQuad,
\* sortClockwiseTL and the lambda findTightRange; pc names the helper called
\* ------------------------------------------------------------------------
MaxSeamSide == 34
MaxSmallSide == 8
QuadSide == 24
MaxQuadCoord == 2
MaxVecLen == 4
LongVecLen == 70

CallSeams ==
    /\ pc = "checkGridSeams" /\ cRep = NoValue
    /\ cRep' = IF checkGridSeams_pre(cMask)
               THEN [raised |-> FALSE, report |-> checkGridSeams(cMask)]
               ELSE [raised |-> TRUE]
    /\ UNCHANGED << detectVars, callVars, sink, peer, geomVars, segVars, cMask >>

CallQuad ==
    /\ pc = "findStrongQuad" /\ cRep = NoValue
    /\ cRep' = IF findStrongQuad_pre(cMask)
               THEN [raised |-> FALSE, quad |-> findStrongQuad(cMask)]
               ELSE [raised |-> TRUE]
    /\ UNCHANGED << detectVars, callVars, sink, peer, geomVars, segVars, cMask >>

CallSort ==
    /\ pc = "sortClockwiseTL" /\ cRep = NoValue
    /\ cRep' = [raised |-> FALSE, pts |-> sortClockwiseTL(cMask)]
    /\ UNCHANGED << detectVars, callVars, sink, peer, geomVars, segVars, cMask >>

CallRange ==
    /\ pc = "findTightRange" /\ cRep = NoValue
    /\ cRep' = [raised |-> FALSE, range |-> findTightRange(cMask.frac, cMask.len, Rat(10, 100))]
    /\ UNCHANGED << detectVars, callVars, sink, peer, geomVars, segVars, cMask >>

\* The arguments: masks of every small size and of the square sizes detect
\* warps to, blank, full, or full with dark columns and rows; masks with no
\* region, regions of one pixel or one line, rectangles and L-shaped regions;
\* the four corners of convex quads in every order; fill-fraction vectors.
InitCalls ==
    LET E(r, c) == [r |-> r, cls |-> c]
        maskOf(w, h, pt) == buildAllowedMaskHSV(Image(w, h, "CV_8UC3", pt, "blank"),
                                                DefaultSegSmin, DefaultSegVmin)
        dark(w, h, a1, a2, b1, b2) ==
            << E(Rect(0, 0, w - 1, h - 1), "vivid"),
               E(Rect(a1, 0, a1, h - 1), "black"), E(Rect(a2, 0, a2, h - 1), "black"),
               E(Rect(0, b1, w - 1, b1), "black"), E(Rect(0, b2, w - 1, b2), "black") >>
        seamPaints(w, h) ==
            { << >>, << E(Rect(0, 0, w - 1, h - 1), "vivid") >>,
              dark(w, h, w \div 5, (4 * w) \div 5 - 1, h \div 5, (4 * h) \div 5 - 1),
              dark(w, h, (2 * w) \div 5 - 1, (3 * w) \div 5, (2 * h) \div 5 - 1, (3 * h) \div 5),
              dark(w, h, w \div 3, (2 * w) \div 3, h \div 2, h \div 2) }
            \cup { dark(w, h, a, a, a, a) : a \in 0..(w - 1) }
        seamSizes == ((0..MaxSmallSide) \X (0..MaxSmallSide))
                     \cup { <<n, n>> : n \in (MinWarp - 2)..MaxSeamSide }
        seamMasks == UNION { { maskOf(wh[1], wh[2], pt) : pt \in seamPaints(wh[1], wh[2]) } :
                               wh \in seamSizes }
        ell == << E(Rect(2, 2, 13, 13), "vivid"), E(Rect(9, 2, 13, 6), "black") >>
        quadPaints ==
            { << >>,
              << E(Rect(5, 5, 5, 5), "vivid") >>,
              << E(Rect(2, 3, 12, 3), "vivid") >>,
              << E(Rect(4, 2, 4, 15), "vivid"), E(Rect(15, 15, 15, 15), "vivid") >>,
              << E(Rect(2, 2, 11, 9), "vivid") >>,
              << E(Rect(1, 1, 4, 4), "vivid"), E(Rect(10, 10, 20, 19), "vivid") >>,
              << E(Rect(10, 10, 20, 19), "vivid"), E(Rect(1, 1, 4, 4), "vivid") >>,
              << E(Rect(2, 2, 11, 9), "vivid"), E(Rect(18, 18, 18, 18), "vivid") >>,
              ell,
              ell \o << E(Rect(17, 15, 21, 21), "vivid") >>,
              << E(Rect(17, 15, 21, 21), "vivid") >> \o ell }
        quadMasks == { maskOf(QuadSide, QuadSide, pt) : pt \in quadPaints }
                     \cup { maskOf(0, 0, << >>),
                            Image(QuadSide, QuadSide, "CV_8UC3", << >>, "blank") }
        pts == { Pt(x, y) : x \in 0..MaxQuadCoord, y \in 0..MaxQuadCoord }
        cross(a, b, c) == (b.x - a.x) * (c.y - b.y) - (b.y - a.y) * (c.x - b.x)
        convex(q) == \/ \A i \in 1..4 : cross(q[i], q[(i % 4) + 1], q[((i + 1) % 4) + 1]) > 0
                     \/ \A i \in 1..4 : cross(q[i], q[(i % 4) + 1], q[((i + 1) % 4) + 1]) < 0
        perm(q, f) == [i \in 1..4 |-> q[f[i]]]
        quads == { perm(q, f) : q \in { t \in [1..4 -> pts] : convex(t) },
                                f \in { g \in [1..4 -> 1..4] : \A i, j \in 1..4 : g[i] = g[j] => i = j } }
        levels == { Rat(0, 1), Rat(1, 10), Rat(1, 2), Rat(1, 1) }
        block(a, b) == [i \in 0..(LongVecLen - 1) |-> IF a <= i /\ i <= b THEN Rat(1, 1) ELSE Rat(0, 1)]
        vectors == UNION { { [len |-> n, frac |-> f] : f \in [0..(n - 1) -> levels] } : n \in 1..MaxVecLen }
                   \cup { [len |-> LongVecLen, frac |-> block(a, b)] :
                            a \in {0, 1, LongVecLen - 1}, b \in {0, LongVecLen - 3, LongVecLen - 1} }
    IN  /\ build = "md" /\ seg = "v2"
        /\ bgr = NoValue /\ opt = NoValue /\ hint = "" /\ env = "ok"
        /\ ran = << >>
        /\ segLog = << >>
        /\ sopt = NoValue /\ mask = NoValue /\ quadOpt = NoValue /\ warpRes = NoValue
        /\ sopt_warp = NoValue /\ warpedMask = NoValue /\ seams = NoValue /\ cells = NoValue
        /\ colorful = NoValue /\ grid_ok = NoValue /\ poly = NoValue /\ cov = NoValue
        /\ ret = NoValue
        /\ sink = << >> /\ peer = NoValue
        /\ gPoly = NoValue /\ gSize = NoValue /\ gCov = NoValue
        /\ kImg = NoValue /\ kOpt = NoValue /\ kPc = "off" /\ kMask = NoValue /\ kLog = << >>
        /\ cRep = NoValue
        /\ \/ pc = "checkGridSeams" /\ cMask \in seamMasks
           \/ pc = "findStrongQuad" /\ cMask \in quadMasks
           \/ pc = "sortClockwiseTL" /\ cMask \in quads
           \/ pc = "findTightRange" /\ cMask \in vectors

NextCalls ==
    \/ CallSeams
    \/ CallQuad
    \/ CallSort
    \/ CallRange

SpecCalls == InitCalls /\ [][NextCalls]_vars

\* ------------------------------------------------------------------------
\* Properties of detect and of polygonCoveragePercent
\* ------------------------------------------------------------------------
Finished == pc = "done"

ResultReturned == pc = "done" /\ ret.found

GridRan == Len(ran) >= 5

InPercentRange(c) == c.num >= 0 /\ c.num <= 100 * c.den

C2_PermissiveNeedsCellsOrColorful ==
    (ResultReturned /\ ~opt.strict_grid) =>
        \/ checkGridCells(warpedMask, opt.min_cell_fraction).ok
        \/ colorful_cells_ge7(warpRes.image)

\* C3 (as stated): every result detect returns has coverage_percent >= 0.5.
C3_CoverageAtLeastHalfPercent ==
    ResultReturned => ~RatLess(ret.coverage_percent, Rat(1, 2))

\* C4: on an empty image or an image that is not 8-bit 3-channel, detect
\* returns no detection, raises nothing and runs no stage after the guard.
C4_InvalidInputRejected ==
    (pc # "guard" /\ pc # "idle" /\ (IsEmpty(bgr) \/ bgr.type # "CV_8UC3")) =>
        /\ Finished
        /\ ret = NotFound
        /\ ran = <<"guard">>
        /\ segLog = << >>
        /\ mask = NoValue /\ quadOpt = NoValue /\ warpRes = NoValue

C4_Witness ==
    /\ Finished /\ ret = NotFound /\ ran = <<"guard">>
    /\ ~IsEmpty(bgr) /\ bgr.type # "CV_8UC3"

\* C5: when findStrongQuad finds no quadrilateral on the first mask, detect
\* returns no detection and no later stage (warp, second segmentation, grid
\* checks, refinement, coverage) is executed.
C5_NoQuadStopsPipeline ==
    (Len(ran) >= 3 /\ findStrongQuad(mask) = NoValue) =>
        /\ Finished
        /\ ret = NotFound
        /\ ran = <<"guard", "segment", "quad">>
        /\ Len(segLog) = 1
        /\ warpRes = NoValue /\ warpedMask = NoValue
        /\ seams = NoValue /\ cells = NoValue
        /\ poly = NoValue /\ cov = NoValue

C5_Witness ==
    /\ Finished /\ ret = NotFound
    /\ ran = <<"guard", "segment", "quad">>
    /\ findStrongQuad(mask) = NoValue

\* C6: every result returned in strict mode has grid_ok = true.
C6_StrictResultHasGridOk ==
    (ResultReturned /\ opt.strict_grid) => ret.grid_ok = TRUE

C6_Witness == ResultReturned /\ opt.strict_grid /\ ret.grid_ok = TRUE

\* C7 (as stated): coverage_percent lies in [0, 100], both in the results of
\* detect and in every value polygonCoveragePercent returns.
C7_CoverageInRange ==
    /\ (pc = "done" /\ ret.found) => InPercentRange(ret.coverage_percent)
    /\ gCov # NoValue => InPercentRange(gCov)

\* C8 (as stated): polygonCoveragePercent is 0 for fewer than 3 vertices or
\* width * height = 0 and otherwise 100 * (signed polygon area) / (width * height).
C8_SignedAreaOverSize ==
    gCov # NoValue =>
        LET total == gSize.width * gSize.height
        IN  IF Len(gPoly.pts) < 3 \/ total = 0
            THEN gCov.num = 0
            ELSE gCov.num * (2 * total) = 100 * Shoelace(gPoly.pts) * gCov.den

\* C8 (amended): polygonCoveragePercent is 0 for fewer than 3 vertices or
\* width * height <= 0 and otherwise 100 * |polygon area| / (width * height).
C8_AbsoluteAreaOverSize ==
    gCov # NoValue =>
        LET total == gSize.width * gSize.height
        IN  IF Len(gPoly.pts) < 3 \/ total <= 0
            THEN gCov.num = 0
            ELSE gCov.num * (2 * total) = 100 * Abs(Shoelace(gPoly.pts)) * gCov.den

C8_Witness ==
    /\ gCov # NoValue
    /\ Len(gPoly.pts) >= 3
    /\ gSize.width * gSize.height > 0
    /\ Shoelace(gPoly.pts) < 0
    /\ gCov.num > 0

\* C9 (as stated): the polygon of a returned result, and the one its coverage
\* is computed from, is the refined quadrilateral back-projected from the
\* tightened warped mask, not the raw quadrilateral of findStrongQuad.
C9_PolygonIsRefined ==
    ResultReturned =>
        /\ ret.polygon = refinePolygon(warpedMask, warpRes)
        /\ RatEq(ret.coverage_percent,
                 polygonCoveragePercent(refinePolygon(warpedMask, warpRes), sizeOf(bgr)))

\* C10 (as stated): in strict mode the grid decision is seams.ok and
\* (cells.ok or colorful): the decision taken equals that expression, and the
\* call returns no detection when the expression is false.
C10_StrictIsSeamsAndCellsOrColorful ==
    (GridRan /\ opt.strict_grid) =>
        LET documented ==
                /\ checkGridSeams(warpedMask).ok
                /\ \/ checkGridCells(warpedMask, opt.min_cell_fraction).ok
                   \/ colorful_cells_ge7(warpRes.image)
        IN  /\ grid_ok <=> documented
            /\ (Finished /\ ~documented) => ret = NotFound

\* ------------------------------------------------------------------------
\* Properties of the segmenter
\* ------------------------------------------------------------------------
AllBlack(img) == img.paint = << >>

litCount(m) == countNonZero(m, WholeOf(m))

\* C15: for an all-black image the mask of step 1 has no allowed pixel, also
\* with the floors as the two relaxation retries leave them, and a call
\* of detect that returns, returns no detection.
C15_BlackImageHasEmptyMask ==
    (pc # "idle" /\ ~inputRejected(bgr) /\ AllBlack(bgr)) =>
        /\ Len(ran) >= 2 => litCount(mask) = 0
        /\ Finished => ret = NotFound

C15_Witness ==
    /\ Finished /\ ~inputRejected(bgr) /\ AllBlack(bgr)
    /\ seg = "v2"
    /\ mask.smin = DefaultSegSmin - 20 /\ mask.vmin = DefaultSegVmin - 20
    /\ litCount(mask) = 0
    /\ ret = NotFound

\* C17 (as stated): every mask computation thresholds each of the seven
\* templates with S floor max(template floor, global floor) and V floor
\* max(template floor, global floor), never below the template's own floor.
C17_FloorIsMaxOfTemplateAndGlobal ==
    \A n \in 1..Len(kLog) : \A i \in 1..Len(Templates) :
        /\ kLog[n].ranges[i].smin = Max(Templates[i].smin, kLog[n].smin)
        /\ kLog[n].ranges[i].vmin = Max(Templates[i].vmin, kLog[n].vmin)
        /\ kLog[n].ranges[i].smin >= Templates[i].smin
        /\ kLog[n].ranges[i].vmin >= Templates[i].vmin

C19_RelaxationAtMostTwice ==
    [][/\ Len(kLog') <= 3
       /\ (Len(kLog) >= 1 /\ Len(kLog') = Len(kLog) + 1) =>
              /\ 1000 * litCount(kMask) < kMask.cols * kMask.rows
              /\ kMask' = buildAllowedMaskHSV(kImg, Max(0, kMask.smin - 10),
                                                    Max(0, kMask.vmin - 10))
              /\ kLog'[Len(kLog')].smin = Max(0, kLog[Len(kLog)].smin - 10)
              /\ kLog'[Len(kLog')].vmin = Max(0, kLog[Len(kLog)].vmin - 10)
       /\ (kPc = "relax" /\ kPc' # "relax") =>
              \/ 1000 * litCount(kMask) >= kMask.cols * kMask.rows
              \/ Len(kLog) = 3]_vars

C19_Witness ==
    /\ kPc = "done" /\ Len(kLog) = 3
    /\ kLog[1].smin = 90 /\ kLog[3].smin = 70
    /\ kLog[1].vmin = 5 /\ kLog[3].vmin = 0
    /\ 1000 * litCount(kMask) >= kMask.cols * kMask.rows

\* ------------------------------------------------------------------------
\* Properties of checkGridCells
\* ------------------------------------------------------------------------
\* C16 (as stated): given a mask that is empty or not square, checkGridCells
\* does not fail: it returns a report with ok = false whose nine fractions
\* are all zero.
C16_BadMaskGivesZeroReport ==
    (cRep # NoValue /\ (IsEmpty(cMask) \/ cMask.rows # cMask.cols)) =>
        /\ ~cRep.raised
        /\ ~cRep.report.ok
        /\ \A r \in 0..2 : \A c \in 0..2 : cRep.report.frac[r][c].num = 0

\* ------------------------------------------------------------------------
\* Properties of the warp stage
\* ------------------------------------------------------------------------
WarpSegmented == Len(ran) >= 4 /\ pc \in {"grid", "refine", "coverage", "package", "done"}

warpedPasses == SelectSeq(segLog, LAMBDA e : e.image = "warped")

\* C20 (as stated): the warped view is segmented a second time exactly when
\* its first mask covers less than 3% of the N x N square; the second pass
\* runs with both floors lowered by 20 (not below 0) and max(1, close_iter)
\* closing iterations, and there is never a third pass.
C20_SecondWarpPassIffSparse ==
    WarpSegmented =>
        LET first == segmentWith(seg, warpRes.image, sopt)
            n == warpRes.image.cols
        IN  /\ Len(warpedPasses) \in {1, 2}
            /\ warpedPasses[1].opt = sopt
            /\ (Len(warpedPasses) = 2) <=> (100 * litCount(first) < 3 * n * n)
            /\ Len(warpedPasses) = 2 =>
                   warpedPasses[2].opt =
                       [sopt EXCEPT !.smin = Max(0, sopt.smin - 20),
                                    !.vmin = Max(0, sopt.vmin - 20),
                                    !.close_iter = Max(1, sopt.close_iter)]

\* ------------------------------------------------------------------------
\* Properties of detect as a function of its arguments
\* ------------------------------------------------------------------------
\* The same call with debugging switched off, run to its end.
quietCall ==
    detect(build, seg, bgr,
           [opt EXCEPT !.debug = FALSE, !.save_debug = FALSE, !.save_debug_dir = "out"],
           "", "ok")

Over == pc \in {"done", "raised"}

\* C11 (as stated): the outcome of detect (no detection, or polygon, coverage
\* and grid_ok) is the outcome of the same call without debugging, whatever
\* debug, save_debug, save_debug_dir and the name hint are, also when every
\* write of a debug artifact fails.
C11_OutcomeIgnoresDebugSink ==
    (Over /\ ran # << >>) => Outcome(Frame) = Outcome(quietCall)

C14_FullFrameBoardCoversAll ==
    (Over /\ bgr = Board) =>
        /\ pc = "done"
        /\ ret.found
        /\ ret.grid_ok
        /\ ~RatLess(ret.coverage_percent, Rat(99, 1))
        /\ ~RatLess(Rat(101, 1), ret.coverage_percent)

\* C21: the warped-view step, relaxation included, leaves the mask of step
\* 2, the quad extracted from it, the segmentation options built for step 2
\* and the caller's DetectOptions as they were.
C21_WarpRelaxationIsLocal ==
    [][pc = "warp" => /\ mask' = mask
                      /\ quadOpt' = quadOpt
                      /\ sopt' = sopt
                      /\ opt' = opt]_vars

\* The warped view was sparse and was segmented again with relaxed options.
C21_Witness ==
    /\ WarpSegmented /\ Len(warpedPasses) = 2
    /\ sopt_warp # sopt
    /\ sopt_warp = relaxForWarp(sopt)

\* C23: the nine cells of checkGridCells cover every pixel of the N x N
\* mask exactly once, the last row and column taking the remainder; every
\* fraction is the lit share of its cell and lies in [0, 1]; ok is true
\* exactly when all nine fractions are at least minFraction.
cellOf(n, x) == IF n \div 3 = 0 THEN 2 ELSE Min(2, x \div (n \div 3))

litShare(m, r, c) ==
    LET px == {p \in (0..(m.cols - 1)) \X (0..(m.rows - 1)) :
                  cellOf(m.cols, p[1]) = c /\ cellOf(m.rows, p[2]) = r}
        lit == {p \in px : Lit(m, p[1], p[2])}
    IN  IF px = {} THEN Rat(0, 1) ELSE Rat(Cardinality(lit), Cardinality(px))

C23_CellsPartitionAndDecide ==
    (pc = "idle" /\ cRep # NoValue /\ ~cRep.raised) =>
        LET n == cMask.rows
            rep == cRep.report
        IN  /\ \A x, y \in 0..(n - 1) :
                  \A r, c \in 0..2 :
                      InRect(CellRect(n, r, c), x, y) <=> (r = cellOf(n, y) /\ c = cellOf(n, x))
            /\ \A r, c \in 0..2 :
                  /\ RatEq(rep.frac[r][c], litShare(cMask, r, c))
                  /\ rep.frac[r][c].den > 0
                  /\ 0 <= rep.frac[r][c].num /\ rep.frac[r][c].num <= rep.frac[r][c].den
            /\ rep.ok <=> \A r, c \in 0..2 :
                             ~RatLess(litShare(cMask, r, c), cRep.minFraction)

\* A mask whose side leaves a remainder, with every cell half lit or more
\* and one cell exactly at minFraction.
C23_Witness ==
    /\ pc = "idle" /\ cRep # NoValue /\ ~cRep.raised
    /\ cMask.rows % 3 # 0 /\ cMask.rows > 3
    /\ cRep.report.ok
    /\ \E r, c \in 0..2 : /\ RatEq(cRep.report.frac[r][c], cRep.minFraction)
                           /\ cRep.report.frac[r][c].num > 0

\* The number of cells of the colour image img whose mean saturation and
\* mean value are at least (atLeast) or strictly above (~atLeast) 70 and 60.
RECURSIVE SumOf(_, _)
SumOf(f, S) ==
    IF S = {} THEN 0
    ELSE LET x == CHOOSE x \in S : TRUE IN f[x] + SumOf(f, S \ {x})

colorfulCells(img, atLeast) ==
    LET n == img.rows
        kinds == PaintClasses(img.paint)
        pixels == (0..(n - 1)) \X (0..(n - 1))
        kindAt == [p \in pixels |-> PixelClass(img, p[1], p[2])]
        px == [rc \in (0..2) \X (0..2) |->
                  {p \in pixels : cellOf(n, p[1]) = rc[2] /\ cellOf(n, p[2]) = rc[1]}]
        cnt == [rc \in (0..2) \X (0..2) |->
                   [k \in kinds |-> Cardinality({p \in px[rc] : kindAt[p] = k})]]
        overS(rc) == SumOf([k \in kinds |-> cnt[rc][k] * (ClassS(k) - 70)], kinds)
        overV(rc) == SumOf([k \in kinds |-> cnt[rc][k] * (ClassV(k) - 60)], kinds)
        good(rc) == IF atLeast THEN overS(rc) >= 0 /\ overV(rc) >= 0
                    ELSE overS(rc) > 0 /\ overV(rc) > 0
    IN  Cardinality({rc \in (0..2) \X (0..2) : good(rc)})

\* C24 as stated: the colorful fallback is true exactly when at least 7 of
\* the 9 cells of the warped colour image have mean saturation above 70 and
\* mean value above 60.
C24_ColorfulIsSevenCellsAboveThresholds ==
    (Len(ran) = 5 /\ build = "fb") => (colorful <=> colorfulCells(warpRes.image, FALSE) >= 7)

\* C24, amended: the colorful fallback is true exactly when at least 7 of
\* the 9 cells of the warped colour image have mean saturation at least 70
\* and mean value at least 60; it is a function of the warped colour image
\* alone, whatever the warped mask.
C24_ColorfulIsSevenCellsAtThresholds ==
    (Len(ran) = 5 /\ build = "fb") => (colorful <=> colorfulCells(warpRes.image, TRUE) >= 7)

\* The colours pass although the warped mask fails the cell test.
C24_Witness ==
    /\ Len(ran) = 5 /\ build = "fb"
    /\ colorful = TRUE /\ ~cells.ok
    /\ colorfulCells(warpRes.image, TRUE) >= 7

\* ------------------------------------------------------------------------
\* Properties of the helpers called directly
\* ------------------------------------------------------------------------
Seamed == pc = "checkGridSeams" /\ cRep # NoValue /\ ~cRep.raised

\* Lit pixels of column x and of row y of mask m.
colLit(m, x) == Cardinality({y \in 0..(m.rows - 1) : Lit(m, x, y)})
rowLit(m, y) == Cardinality({x \in 0..(m.cols - 1) : Lit(m, x, y)})

\* c is the first least entry of f over [lo, hi), or lo when that is empty.
firstLeast(c, f, lo, hi) ==
    IF lo >= hi THEN c = lo
    ELSE /\ c \in lo..(hi - 1)
         /\ \A j \in lo..(hi - 1) : f[c] <= f[j]
         /\ \A j \in lo..(c - 1) : f[j] > f[c]

seamsPicked(m, rep) ==
    LET W == m.cols
        H == m.rows
        cl == [x \in 0..(W - 1) |-> colLit(m, x)]
        rl == [y \in 0..(H - 1) |-> rowLit(m, y)]
    IN  /\ firstLeast(rep.cx1, cl, W \div 5, (2 * W) \div 5)
        /\ firstLeast(rep.cx2, cl, (3 * W) \div 5, (4 * W) \div 5)
        /\ firstLeast(rep.cy1, rl, H \div 5, (2 * H) \div 5)
        /\ firstLeast(rep.cy2, rl, (3 * H) \div 5, (4 * H) \div 5)

Quadded == pc = "findStrongQuad" /\ cRep # NoValue /\ ~cRep.raised

\* Some 2 x 2 block of m is lit: a region of m encloses area.
enclosesArea(m) ==
    \E x \in 0..(m.cols - 2), y \in 0..(m.rows - 2) :
        Lit(m, x, y) /\ Lit(m, x + 1, y) /\ Lit(m, x, y + 1) /\ Lit(m, x + 1, y + 1)

\* C25 as stated: findStrongQuad returns none only when the mask has no
\* region, and a quadrilateral whenever it has one.
C25_NoneOnlyWithoutRegion ==
    Quadded => (cRep.quad = NoValue <=> litCount(cMask) = 0)

\* C25, amended: findStrongQuad returns none exactly when no region of the
\* mask encloses area (no region, or only regions one pixel wide or high).
C25_NoneOnlyWithoutEnclosedArea ==
    Quadded => (cRep.quad = NoValue <=> ~enclosesArea(cMask))

\* The mask has regions, none enclosing area, and the answer is none.
C25_Witness ==
    /\ Quadded /\ cRep.quad = NoValue
    /\ litCount(cMask) > 1 /\ ~enclosesArea(cMask)

\* The turn at each vertex of p, in image coordinates (> 0: clockwise).
turnAt(p, i) ==
    LET a == p[i]
        b == p[(i % Len(p)) + 1]
        c == p[((i + 1) % Len(p)) + 1]
    IN  (b.x - a.x) * (c.y - b.y) - (b.y - a.y) * (c.x - b.x)

isConvex(p) == \/ \A i \in 1..Len(p) : turnAt(p, i) >= 0
               \/ \A i \in 1..Len(p) : turnAt(p, i) <= 0

\* The first contour of the largest enclosed area.
largestRegion(m) ==
    LET cs == findContours(m)
    IN  cs[CHOOSE k \in 1..Len(cs) :
                /\ \A j \in 1..Len(cs) : contourArea2(cs[j]) <= contourArea2(cs[k])
                /\ \A j \in 1..(k - 1) : contourArea2(cs[j]) < contourArea2(cs[k])]

boxCorners(p) ==
    LET xs == {p[i].x : i \in 1..Len(p)}
        ys == {p[i].y : i \in 1..Len(p)}
        lo(S) == CHOOSE v \in S : \A w \in S : v <= w
        hi(S) == CHOOSE v \in S : \A w \in S : w <= v
    IN  {Pt(lo(xs), lo(ys)), Pt(hi(xs), lo(ys)), Pt(hi(xs), hi(ys)), Pt(lo(xs), hi(ys))}

\* C26: a quad returned by findStrongQuad has exactly 4 points: the
\* vertices of the largest region's approximation when that has 4 vertices
\* and is convex, else the corners of the region's minimum-area rectangle,
\* which encloses every pixel of the region.
C26_QuadFromLargestRegion ==
    (Quadded /\ cRep.quad # NoValue) =>
        LET q == cRep.quad.pts
            big == largestRegion(cMask)
            got == {q[i] : i \in 1..Len(q)}
        IN  /\ Len(q) = 4 /\ cRep.quad.den = 1
            /\ IF Len(big) = 4 /\ isConvex(big)
               THEN /\ got = {big[i] : i \in 1..4}
                    /\ \A i \in 1..4 : Lit(cMask, q[i].x, q[i].y)
               ELSE got = boxCorners(big)
            /\ Len(findContours(cMask)) = 1 =>
                  /\ \A x \in 0..(cMask.cols - 1), y \in 0..(cMask.rows - 1) :
                        Lit(cMask, x, y) =>
                            \E a, b \in got : a.x <= x /\ x <= b.x /\ a.y <= y /\ y <= b.y
                  /\ \A a \in got :
                        /\ \E y \in 0..(cMask.rows - 1) : Lit(cMask, a.x, y)
                        /\ \E x \in 0..(cMask.cols - 1) : Lit(cMask, x, a.y)

\* The largest of two regions is L-shaped: the quad is its bounding
\* rectangle, one corner of which is not lit.
C26_Witness ==
    /\ Quadded /\ cRep.quad # NoValue
    /\ Len(findContours(cMask)) = 2
    /\ Len(largestRegion(cMask)) # 4
    /\ \E i \in 1..4 : ~Lit(cMask, cRep.quad.pts[i].x, cRep.quad.pts[i].y)

Sorted == pc = "sortClockwiseTL" /\ cRep # NoValue

\* out holds the corners of inp, clockwise in image coordinates, starting
\* with a corner of least x + y.
canonicalOf(inp, out) ==
    /\ Len(out) = 4
    /\ \E f \in [1..4 -> 1..4] :
          /\ \A i, j \in 1..4 : f[i] = f[j] => i = j
          /\ \A i \in 1..4 : out[i] = inp[f[i]]
    /\ \A i \in 1..4 : turnAt(out, i) > 0
    /\ \A i \in 1..4 : out[1].x + out[1].y <= out[i].x + out[i].y

\* C27: sortClockwiseTL returns the 4 input corners of a convex quad
\* clockwise, starting with a corner of least x + y, and leaves its own
\* result unchanged; warpToSquareWithH uses the corners in that order and
\* findStrongQuad returns them in that order.
C27_QuadsAreCanonical ==
    /\ Sorted =>
          /\ canonicalOf(cMask, cRep.pts)
          /\ sortClockwiseTL(cRep.pts) = cRep.pts
          /\ warpToSquareWithH(Image(QuadSide, QuadSide, "CV_8UC3", << >>, "blank"),
                               Poly(cMask, 1), MinWarp).src = cRep.pts
    /\ (Quadded /\ cRep.quad # NoValue) =>
          /\ canonicalOf(cRep.quad.pts, cRep.quad.pts)
          /\ sortClockwiseTL(cRep.quad.pts) = cRep.quad.pts

\* Corners given counter-clockwise, of a quad that is no upright rectangle
\* and has two corners of least x + y.
C27_Witness ==
    /\ Sorted
    /\ \A i \in 1..4 : turnAt(cMask, i) < 0
    /\ cRep.pts[1] # cMask[1]
    /\ Cardinality({cMask[i].x : i \in 1..4}) > 2
    /\ \E i \in 2..4 : cRep.pts[i].x + cRep.pts[i].y = cRep.pts[1].x + cRep.pts[1].y

Ranged == pc = "findTightRange" /\ cRep # NoValue

\* C28: the range [L, R] of findTightRange satisfies 0 <= L <= R <= W - 1
\* and lies inside the span from the first to the last index whose
\* fraction exceeds 10%, also when no index or one index exceeds 10%.
C28_RangeInsideVectorAndSpan ==
    Ranged =>
        LET W == cMask.len
            over == {i \in 0..(W - 1) : RatLess(Rat(10, 100), cMask.frac[i])}
            L == cRep.range.first
            R == cRep.range.second
        IN  /\ 0 <= L /\ L <= R /\ R <= W - 1
            /\ over # {} => \E i, j \in over : i <= L /\ R <= j

\* C30: through detect on a non-empty CV_8UC3 image no CV_Assert can fail:
\* each helper is reached with its precondition true (masks non-empty and
\* single-channel, a quad of 4 points, a positive side), the warped image
\* and the warped mask are N x N with N = max(32, warp_size) >= 32, and the
\* only exception a call can end with is that of the debug preamble.
C30_NoAssertFailsThroughDetect ==
    (pc \notin {"idle", "guard"} /\ ~IsEmpty(bgr) /\ bgr.type = "CV_8UC3") =>
        LET N == Max(32, opt.warp_size)
        IN  /\ pc = "raised" => ran = << "guard" >>
            /\ pc = "segment" => allowedMaskHSV_pre(bgr)
            /\ pc = "quad" => findStrongQuad_pre(mask)
            /\ pc = "warp" => /\ Len(quadOpt.pts) = 4
                              /\ warpToSquareWithH_pre(bgr, quadOpt, N)
            /\ pc = "grid" =>
                  /\ N >= 32
                  /\ warpRes.image.cols = N /\ warpRes.image.rows = N
                  /\ warpRes.image.type = "CV_8UC3"
                  /\ warpedMask.cols = N /\ warpedMask.rows = N
                  /\ checkGridSeams_pre(warpedMask) /\ checkGridCells_pre(warpedMask)
                  /\ colorful_cells_ge7_pre(warpRes.image)

\* A call with warp_size below 32 reaches the grid helpers with a 32 x 32
\* warped mask.
C30_Witness ==
    /\ pc = "grid" /\ opt.warp_size < 32
    /\ warpedMask.cols = 32 /\ warpedMask.rows = 32
    /\ checkGridCells_pre(warpedMask)
====
